---- MODULE Spec2Model ----
(***************************************************************************)
(* A model of the gosql template engine: an Engine holding compiled        *)
(* template trees, and GetSql rendering one of them against caller         *)
(* arguments into SQL text plus an ordered parameter list.                 *)
(*                                                                         *)
(* Representation.  A Go string that the engine writes or scans is a       *)
(* sequence of tokens: "\n" is the newline, "?" the placeholder mark,      *)
(* ", " the separator appendArg writes, and every other token is a run of  *)
(* characters holding neither a newline nor a "?".  A Go interface{} value *)
(* is a record [kind, n, s, elems, keys].  An expression handed to the     *)
(* goscript2 interpreter is a record [op, name, n].                        *)
(***************************************************************************)
EXTENDS Integers, Sequences, FiniteSets, TLC

(***************************************************************************)
(* Bounds of the model.                                                    *)
(***************************************************************************)
\* largest integer literal used as a loop limit or start
MaxInt == 3
\* iterations a render may spend in counted loops before it is taken to
\* never return
MaxIter == 5
\* depth of the chain of calls at which a render is taken to never return
MaxDepth == 16

(***************************************************************************)
(* Values (interface{}).                                                   *)
(***************************************************************************)
VNil == [kind |-> "nil", n |-> 0, s |-> "", elems |-> <<>>, keys |-> <<>>]
VBool(b) == [kind |-> "bool", n |-> IF b THEN 1 ELSE 0, s |-> "", elems |-> <<>>, keys |-> <<>>]
VInt(i) == [kind |-> "int", n |-> i, s |-> "", elems |-> <<>>, keys |-> <<>>]
VStr(str) == [kind |-> "string", n |-> 0, s |-> str, elems |-> <<>>, keys |-> <<>>]
\* a non-nil slice; n = 1 marks "not the nil slice"
VSlice(es) == [kind |-> "slice", n |-> 1, s |-> "", elems |-> es, keys |-> <<>>]
VNilSlice == [kind |-> "slice", n |-> 0, s |-> "", elems |-> <<>>, keys |-> <<>>]
\* a map with string keys ks[i] bound to vs[i]
VMap(ks, vs) == [kind |-> "map", n |-> 1, s |-> "", elems |-> vs, keys |-> ks]
\* a pointer; n = 0 is the nil pointer
VPtr(nonNil) == [kind |-> "ptr", n |-> IF nonNil THEN 1 ELSE 0, s |-> "", elems |-> <<>>, keys |-> <<>>]
\* a callable; s names what it does when called
VFunc(what) == [kind |-> "func", n |-> 1, s |-> what, elems |-> <<>>, keys |-> <<>>]

(***************************************************************************)
(* Scope: map[string]interface{}, a function from the bound names.         *)
(***************************************************************************)
EmptyScope == [x \in {} |-> VNil]

Bind(scope, name, v) ==
    [x \in DOMAIN scope \cup {name} |-> IF x = name THEN v ELSE scope[x]]

(***************************************************************************)
(* Expressions evaluated by the interpreter.                               *)
(***************************************************************************)
NoExpr == [op |-> "none", name |-> "", n |-> 0]
EVar(name) == [op |-> "var", name |-> name, n |-> 0]
ELit(i) == [op |-> "lit", name |-> "", n |-> i]
ELt(name, i) == [op |-> "lt", name |-> name, n |-> i]
EGt(name, i) == [op |-> "gt", name |-> name, n |-> i]
ECall(name) == [op |-> "call", name |-> name, n |-> 0]

EvalOk(v) == [ok |-> TRUE, val |-> v]
EvalErr == [ok |-> FALSE, val |-> VNil]

\* ctx.interp.EvalExprWithArgs(expr, ctx.scope)
evalExpr(expr, scope) ==
    CASE expr.op = "lit" -> EvalOk(VInt(expr.n))
      [] expr.op = "var" ->
            IF expr.name \in DOMAIN scope THEN EvalOk(scope[expr.name]) ELSE EvalErr
      [] expr.op = "lt" ->
            IF expr.name \in DOMAIN scope /\ scope[expr.name].kind = "int"
            THEN EvalOk(VBool(scope[expr.name].n < expr.n)) ELSE EvalErr
      [] expr.op = "gt" ->
            IF expr.name \in DOMAIN scope /\ scope[expr.name].kind = "int"
            THEN EvalOk(VBool(scope[expr.name].n > expr.n)) ELSE EvalErr
      [] expr.op = "call" ->
            IF expr.name \in DOMAIN scope /\ scope[expr.name].kind = "func"
            THEN EvalOk(VStr(scope[expr.name].s)) ELSE EvalErr
      [] OTHER -> EvalErr

\* the switch of evalCondition on an evaluated value
condTruth(v) ==
    CASE v.kind = "bool" -> v.n # 0
      [] v.kind = "int" -> v.n # 0
      [] v.kind = "string" -> v.s # ""
      [] v.kind = "nil" -> FALSE
      [] OTHER -> v.n # 0   \* !reflect.ValueOf(v).IsZero(): only nil slice/map/ptr

evalCondition(expr, scope) ==
    LET r == evalExpr(expr, scope)
    IN  IF r.ok THEN [ok |-> TRUE, val |-> condTruth(r.val)]
        ELSE [ok |-> FALSE, val |-> FALSE]

\* a faulty isTruthy: only the nil interface is false
isTruthyNonNil(v) == v.kind # "nil"

isTruthy(v) ==
    CASE v.kind = "nil" -> FALSE
      [] v.kind = "bool" -> v.n # 0
      [] v.kind = "int" -> v.n # 0
      [] v.kind = "string" -> v.s # ""
      [] v.kind \in {"slice", "map"} -> Len(v.elems) > 0
      [] v.kind = "ptr" -> v.n # 0
      [] OTHER -> TRUE

(***************************************************************************)
(* fmt.Sprintf("%v", value) for the values the model renders raw.          *)
(***************************************************************************)
Digits == <<"0", "1", "2", "3", "4", "5", "6", "7", "8", "9">>

RECURSIVE Sprint(_)
RECURSIVE SprintAll(_, _)

\* the operands of a slice or a map, with a space between them; a map's
\* operands are printed as key:value
SprintAll(v, i) ==
    IF i > Len(v.elems) THEN <<>>
    ELSE (IF i > 1 THEN <<" ">> ELSE <<>>)
         \o (IF v.kind = "map" THEN <<v.keys[i], ":">> ELSE <<>>)
         \o Sprint(v.elems[i]) \o SprintAll(v, i + 1)

Sprint(v) ==
    CASE v.kind = "int" /\ v.n >= 0 /\ v.n <= 9 -> <<Digits[v.n + 1]>>
      [] v.kind = "int" -> <<"int">>
      [] v.kind = "string" -> IF v.s = "" THEN <<>> ELSE <<v.s>>
      [] v.kind = "bool" -> IF v.n # 0 THEN <<"true">> ELSE <<"false">>
      [] v.kind = "nil" -> <<"<nil>">>
      [] v.kind = "slice" -> <<"[">> \o SprintAll(v, 1) \o <<"]">>
      [] v.kind = "map" -> <<"map[">> \o SprintAll(v, 1) \o <<"]">>
      [] v.kind = "ptr" -> IF v.n = 0 THEN <<"<nil>">> ELSE <<"0xc000012345">>
      [] OTHER -> <<"{}">>

(***************************************************************************)
(* AST nodes.  Every node is a record of the same shape; `type` is the     *)
(* result of nodeType().                                                   *)
(***************************************************************************)
\* ForNode.Expr, by what the executor's string operations find in it:
\* hasRange: strings.Contains(expr, "range"); nparts: len(strings.Split(expr, ";"));
\* hasAssign: the init clause (or the range clause) contains ":="
NoFor ==
    [hasRange |-> FALSE, nparts |-> 0, hasAssign |-> FALSE, var |-> "", valueVar |-> "",
     init |-> NoExpr, cond |-> NoExpr, postKind |-> "", postVar |-> "",
     postAdd |-> NoExpr, range |-> NoExpr]

\* "v := init; cond; post"
CountedFor(v, init, cond, postKind, postVar, postAdd) ==
    [NoFor EXCEPT !.nparts = 3, !.hasAssign = TRUE, !.var = v, !.init = init,
                  !.cond = cond, !.postKind = postKind, !.postVar = postVar,
                  !.postAdd = postAdd]

\* "k, v := range coll"
RangeFor(k, v, coll) ==
    [NoFor EXCEPT !.hasRange = TRUE, !.nparts = 1, !.hasAssign = TRUE, !.var = k,
                  !.valueVar = v, !.range = coll]

NodeBase ==
    [type |-> "", text |-> <<>>, name |-> "", conditional |-> FALSE, expr |-> NoExpr,
     forExpr |-> NoFor, body |-> <<>>, elseIf |-> <<>>, hasElse |-> FALSE,
     elseBody |-> <<>>, covers |-> <<>>, path |-> <<>>]

TextNode(text) == [NodeBase EXCEPT !.type = "text", !.text = text]
VarNode(name, cond) == [NodeBase EXCEPT !.type = "var", !.name = name, !.conditional = cond]
VarExprNode(expr, cond) == [NodeBase EXCEPT !.type = "var_expr", !.expr = expr, !.conditional = cond]
RawNode(name, cond) == [NodeBase EXCEPT !.type = "raw", !.name = name, !.conditional = cond]
RawExprNode(expr, cond) == [NodeBase EXCEPT !.type = "raw_expr", !.expr = expr, !.conditional = cond]
ElseIfNode(cond, body) == [cond |-> cond, body |-> body]
IfNode(cond, body, elseIf, hasElse, elseBody) ==
    [NodeBase EXCEPT !.type = "if", !.expr = cond, !.body = body, !.elseIf = elseIf,
                     !.hasElse = hasElse, !.elseBody = elseBody]
ForNode(forExpr, body) == [NodeBase EXCEPT !.type = "for", !.forExpr = forExpr, !.body = body]
CoverNode(name, body) == [name |-> name, body |-> body]
UseNode(path, covers) == [NodeBase EXCEPT !.type = "use", !.path = path, !.covers = covers]
DefineNode(name, body) == [NodeBase EXCEPT !.type = "define", !.name = name, !.body = body]
\* FuncExpr is `name` when withCall is FALSE and `name(...)` when TRUE
FuncBlockNode(name, withCall, body) ==
    [NodeBase EXCEPT !.type = "func_block", !.name = name, !.conditional = withCall,
                     !.body = body]

(***************************************************************************)
(* State.                                                                  *)
(*   compiledAST  Engine.compiledAST: key <<namespace, name>> -> node list *)
(*   funcs        Engine.funcs: registered name -> callable                *)
(*   typeCache    globalTypeCache.cache: type name -> CachedTypeInfo       *)
(*   last         what the latest GetSql call was given and returned       *)
(*   first        a remembered earlier GetSql call of the same engine      *)
(*                state (history, for comparing repeated renders)          *)
(*   mu           globalTypeCache.mu: the goroutines holding the read lock *)
(*                and the one holding the write lock                       *)
(*   calls        the GetSql call each goroutine is in, and where in it    *)
(*   built        how many times buildTypeInfo ran for each type (history) *)
(*   pools        scopePool, argsSlicePool and stringBuilderPool: the       *)
(*                objects each holds, and the object handed out last       *)
(*   lexer        a Lexer at work on a template's content                  *)
(*   parser       a TemplateParser at work on the lexer's tokens           *)
(*   store        Engine.store.templates: key -> template content          *)
(*   loadErr      the error the latest LoadMarkdown returned ("" is nil)   *)
(***************************************************************************)
VARIABLES compiledAST, funcs, typeCache, last, first, mu, calls, built, pools,
          lexer, parser, store, loadErr

vars == <<compiledAST, funcs, typeCache, last, first, mu, calls, built, pools,
          lexer, parser, store, loadErr>>

(***************************************************************************)
(* executionContext.  sql and args are ctx.sql and ctx.args; err is the    *)
(* error being returned ("" is nil); iters counts counted-loop iterations; *)
(* order is the order in which this render's map iterations deliver keys.  *)
(***************************************************************************)
NeverReturns == "never returns"

Fail(ctx, e) == [ctx EXCEPT !.err = e]

\* strings.LastIndex(sql, "\n") + 1: the length of the prefix that ends with
\* the last newline, 0 when there is none
LastNewline(sql) ==
    LET at == {i \in 1..Len(sql) : sql[i] = "\n"}
    IN  IF at = {} THEN 0 ELSE CHOOSE i \in at : \A j \in at : j <= i

skipCurrentLine(ctx) ==
    [ctx EXCEPT !.sql = SubSeq(ctx.sql, 1, LastNewline(ctx.sql))]

\* n marks written by the loop of appendArg: "?" with ", " before all but the first
Marks(n) == [i \in 1..(IF n = 0 THEN 0 ELSE 2 * n - 1) |-> IF i % 2 = 1 THEN "?" ELSE ", "]

\* a faulty appendArg: a slice is pushed as one parameter
appendArgWhole(ctx, value) ==
    [ctx EXCEPT !.sql = Append(@, "?"), !.args = Append(@, value)]

appendArg(ctx, value) ==
    IF value.kind = "slice"
    THEN [ctx EXCEPT !.sql = @ \o Marks(Len(value.elems)), !.args = @ \o value.elems]
    ELSE [ctx EXCEPT !.sql = Append(@, "?"), !.args = Append(@, value)]

executeVarNode(n, ctx) ==
    LET ok == n.name \in DOMAIN ctx.scope
        value == IF ok THEN ctx.scope[n.name] ELSE VNil
    IN  IF n.conditional
        THEN IF ~ok \/ ~isTruthy(value) THEN skipCurrentLine(ctx) ELSE appendArg(ctx, value)
        ELSE IF ~ok THEN Fail(ctx, "variable not found") ELSE appendArg(ctx, value)

executeVarExprNode(n, ctx) ==
    LET r == evalExpr(n.expr, ctx.scope)
    IN  IF ~r.ok THEN Fail(ctx, "eval error")
        ELSE IF n.conditional /\ ~isTruthy(r.val) THEN skipCurrentLine(ctx)
        ELSE appendArg(ctx, r.val)

executeRawNode(n, ctx) ==
    LET ok == n.name \in DOMAIN ctx.scope
        value == IF ok THEN ctx.scope[n.name] ELSE VNil
    IN  IF n.conditional /\ (~ok \/ ~isTruthy(value)) THEN skipCurrentLine(ctx)
        ELSE IF ~n.conditional /\ ~ok THEN Fail(ctx, "variable not found")
        ELSE [ctx EXCEPT !.sql = @ \o Sprint(value)]

executeRawExprNode(n, ctx) ==
    LET r == evalExpr(n.expr, ctx.scope)
    IN  IF ~r.ok THEN Fail(ctx, "eval error")
        ELSE IF n.conditional /\ ~isTruthy(r.val) THEN skipCurrentLine(ctx)
        ELSE [ctx EXCEPT !.sql = @ \o Sprint(r.val)]

\* executePost: the post clause of a counted loop
executePost(f, ctx) ==
    LET v == f.postVar
        isInt == v \in DOMAIN ctx.scope /\ ctx.scope[v].kind = "int"
        add == evalExpr(f.postAdd, ctx.scope)
    IN  CASE f.postKind = "++" ->
                IF isInt THEN [ctx EXCEPT !.scope = Bind(@, v, VInt(ctx.scope[v].n + 1))] ELSE ctx
          [] f.postKind = "--" ->
                IF isInt THEN [ctx EXCEPT !.scope = Bind(@, v, VInt(ctx.scope[v].n - 1))] ELSE ctx
          [] f.postKind = "+=" ->
                IF ~add.ok THEN Fail(ctx, "eval error")
                ELSE IF isInt /\ add.val.kind = "int"
                     THEN [ctx EXCEPT !.scope = Bind(@, v, VInt(ctx.scope[v].n + add.val.n))]
                     ELSE ctx
          [] OTHER -> ctx

\* findDefine: the first define named `name`, depth first through define, if,
\* else-if, else and for bodies; [found |-> FALSE] is nil
NotFound == [found |-> FALSE, body |-> <<>>]

\* a faulty findDefine: only the defines at the top of the list are looked at
RECURSIVE findDefineTopOnly(_, _)
findDefineTopOnly(nodes, name) ==
    IF nodes = <<>> THEN NotFound
    ELSE IF Head(nodes).type = "define" /\ Head(nodes).name = name
         THEN [found |-> TRUE, body |-> Head(nodes).body]
         ELSE findDefineTopOnly(Tail(nodes), name)

RECURSIVE findDefine(_, _)
RECURSIVE findDefineElseIf(_, _)

findDefineElseIf(elseIfs, name) ==
    IF elseIfs = <<>> THEN NotFound
    ELSE LET f == findDefine(Head(elseIfs).body, name)
         IN  IF f.found THEN f ELSE findDefineElseIf(Tail(elseIfs), name)

findDefine(nodes, name) ==
    IF nodes = <<>> THEN NotFound
    ELSE LET n == Head(nodes)
             inBody == findDefine(n.body, name)
             inElseIf == findDefineElseIf(n.elseIf, name)
             inElse == IF n.hasElse THEN findDefine(n.elseBody, name) ELSE NotFound
             here ==
                CASE n.type = "define" ->
                        IF n.name = name THEN [found |-> TRUE, body |-> n.body]
                        ELSE inBody
                  [] n.type = "if" ->
                        IF inBody.found THEN inBody
                        ELSE IF inElseIf.found THEN inElseIf ELSE inElse
                  [] n.type = "for" -> inBody
                  [] OTHER -> NotFound
         IN  IF here.found THEN here ELSE findDefine(Tail(nodes), name)

\* the cover map a use node installs: later covers of one name replace earlier
CoverNames(covers) == {covers[i].name : i \in 1..Len(covers)}

CoverMap(covers) ==
    [c \in CoverNames(covers) |->
        covers[CHOOSE i \in 1..Len(covers) :
                  /\ covers[i].name = c
                  /\ \A j \in 1..Len(covers) : covers[j].name = c => j <= i].body]

NoCovers == [c \in {} |-> <<>>]

\* what a registered or bound callable does with the block's Query
\*   "ptrq": func(*Query), drops the first token of q.SQL in place
\*   "valq": func(Query) string, returns the text "X"
\*   anything else: a callable that cannot take a Query
CallWithQuery(what, q) ==
    CASE what = "ptrq" -> [sql |-> IF q.sql = <<>> THEN <<>> ELSE Tail(q.sql), args |-> q.args]
      [] what = "valq" -> [sql |-> <<"X">>, args |-> q.args]
      [] OTHER -> q

\* indices of a collection in the order the loop visits them
IndexOrder(v, order) ==
    IF v.kind = "map" /\ order = "rev"
    THEN [i \in 1..Len(v.elems) |-> Len(v.elems) + 1 - i]
    ELSE [i \in 1..Len(v.elems) |-> i]

(***************************************************************************)
(* The tree walk.  The Go call stack is ctx.stack: each frame is what a    *)
(* handler still has to do once the node list it started has been          *)
(* executed.                                                               *)
(*   "nodes"    executeNodes: the nodes of the list not yet executed       *)
(*   "range"    executeForRange: the indices not yet visited               *)
(*   "counted"  executeForTraditional: about to test the condition         *)
(*   "post"     executeForTraditional: the body is done, post comes next   *)
(*   "use"      executeUse: the covers to restore                          *)
(*   "block"    executeFuncBlock: the caller's sql and args                *)
(***************************************************************************)
NoSaved == [sql |-> <<>>, args |-> <<>>, covers |-> NoCovers]

Frame(kind, nodes, n, coll, idxs, saved) ==
    [kind |-> kind, nodes |-> nodes, node |-> n, coll |-> coll, idxs |-> idxs,
     saved |-> saved]

Push(ctx, fr) == [ctx EXCEPT !.stack = <<fr>> \o @]

\* ctx.executeNodes(nodes): the call; run carries it out
executeNodes(nodes, ctx) == Push(ctx, Frame("nodes", nodes, NodeBase, VNil, <<>>, NoSaved))

\* the else-if branches of executeIf in order, then the else branch
RECURSIVE executeElseIf(_, _, _)

executeElseIf(n, elseIfs, ctx) ==
    IF elseIfs = <<>>
    THEN IF n.hasElse THEN executeNodes(n.elseBody, ctx) ELSE ctx
    ELSE LET c == evalCondition(Head(elseIfs).cond, ctx.scope)
         IN  IF ~c.ok THEN Fail(ctx, "condition error")
             ELSE IF c.val THEN executeNodes(Head(elseIfs).body, ctx)
             ELSE executeElseIf(n, Tail(elseIfs), ctx)

\* a faulty executeIf: every condition is evaluated before a branch is chosen
executeIfEager(n, ctx) ==
    LET c == evalCondition(n.expr, ctx.scope)
        bad == \E i \in 1..Len(n.elseIf) : ~evalCondition(n.elseIf[i].cond, ctx.scope).ok
    IN  IF ~c.ok \/ bad THEN Fail(ctx, "condition error")
        ELSE IF c.val THEN executeNodes(n.body, ctx)
        ELSE executeElseIf(n, n.elseIf, ctx)

executeIf(n, ctx) ==
    LET c == evalCondition(n.expr, ctx.scope)
    IN  IF ~c.ok THEN Fail(ctx, "condition error")
        ELSE IF c.val THEN executeNodes(n.body, ctx)
        ELSE executeElseIf(n, n.elseIf, ctx)

\* a faulty rangeLoop: the discard name is bound like any other
rangeLoopBindDiscard(fr, ctx) ==
    IF fr.idxs = <<>> THEN ctx
    ELSE LET i == Head(fr.idxs)
             f == fr.node.forExpr
             coll == fr.coll
             k == IF coll.kind = "map" THEN VStr(coll.keys[i]) ELSE VInt(i - 1)
             s1 == IF f.var # "" THEN Bind(ctx.scope, f.var, k) ELSE ctx.scope
             s2 == IF f.valueVar # "" THEN Bind(s1, f.valueVar, coll.elems[i]) ELSE s1
             rest == [fr EXCEPT !.idxs = Tail(@)]
         IN  executeNodes(fr.node.body, Push([ctx EXCEPT !.scope = s2], rest))

\* one turn of the loops of executeForRange: fr.idxs are the indices of
\* fr.coll still to visit
rangeLoop(fr, ctx) ==
    IF fr.idxs = <<>> THEN ctx
    ELSE LET i == Head(fr.idxs)
             f == fr.node.forExpr
             coll == fr.coll
             k == IF coll.kind = "map" THEN VStr(coll.keys[i]) ELSE VInt(i - 1)
             s1 == IF f.var # "" /\ f.var # "_" THEN Bind(ctx.scope, f.var, k) ELSE ctx.scope
             s2 == IF f.valueVar # "" /\ f.valueVar # "_"
                   THEN Bind(s1, f.valueVar, coll.elems[i]) ELSE s1
             rest == [fr EXCEPT !.idxs = Tail(@)]
         IN  executeNodes(fr.node.body, Push([ctx EXCEPT !.scope = s2], rest))

executeForRange(n, ctx) ==
    LET f == n.forExpr
        r == evalExpr(f.range, ctx.scope)
    IN  IF ~f.hasAssign THEN Fail(ctx, "invalid range expression")
        ELSE IF ~r.ok THEN Fail(ctx, "range expression error")
        ELSE IF r.val.kind \in {"slice", "map"}
             THEN Push(ctx, Frame("range", <<>>, n, r.val, IndexOrder(r.val, ctx.order),
                                  NoSaved))
             ELSE Fail(ctx, "cannot range")

\* a faulty countedLoop: the body runs before the condition is first tested
countedLoopBodyFirst(fr, ctx) ==
    LET n == fr.node
        posted == executePost(n.forExpr, ctx)
        c == evalCondition(n.forExpr.cond, posted.scope)
    IN  IF fr.kind = "counted"
        THEN IF ctx.iters >= MaxIter THEN Fail(ctx, NeverReturns)
             ELSE executeNodes(n.body, Push([ctx EXCEPT !.iters = @ + 1],
                                            [fr EXCEPT !.kind = "post"]))
        ELSE IF posted.err # "" THEN posted
        ELSE IF ~c.ok THEN Fail(posted, "for condition error")
        ELSE IF c.val THEN Push(posted, [fr EXCEPT !.kind = "counted"])
        ELSE posted

\* one turn of the for { ... } of executeForTraditional: the condition and
\* the body when fr is "counted", the post clause when it is "post"
countedLoop(fr, ctx) ==
    LET n == fr.node
        c == evalCondition(n.forExpr.cond, ctx.scope)
    IN  IF fr.kind = "post"
        THEN Push(executePost(n.forExpr, ctx), [fr EXCEPT !.kind = "counted"])
        ELSE IF ~c.ok THEN Fail(ctx, "for condition error")
        ELSE IF ~c.val THEN ctx
        ELSE IF ctx.iters >= MaxIter THEN Fail(ctx, NeverReturns)
        ELSE executeNodes(n.body, Push([ctx EXCEPT !.iters = @ + 1],
                                       [fr EXCEPT !.kind = "post"]))

executeForTraditional(n, ctx) ==
    LET f == n.forExpr
        init == evalExpr(f.init, ctx.scope)
    IN  IF f.nparts # 3 THEN Fail(ctx, "invalid for expression")
        ELSE IF ~f.hasAssign THEN ctx
        ELSE IF ~init.ok THEN Fail(ctx, "for init error")
        ELSE Push([ctx EXCEPT !.scope = Bind(@, f.var, init.val)],
                  Frame("counted", <<>>, n, VNil, <<>>, NoSaved))

executeFor(n, ctx) ==
    IF n.forExpr.hasRange THEN executeForRange(n, ctx) ELSE executeForTraditional(n, ctx)

\* a faulty executeUse: the covers it installed stay active when it returns
executeUseKeepCovers(n, ctx) ==
    LET key == <<n.path[1], n.path[2]>>
        withCovers == [ctx EXCEPT !.covers = CoverMap(n.covers)]
        def == findDefine(compiledAST[key], n.path[3])
    IN  IF Len(n.path) < 2 THEN Fail(ctx, "invalid use path")
        ELSE IF key \notin DOMAIN compiledAST THEN Fail(ctx, "template not found")
        ELSE IF Len(n.path) > 2 /\ ~def.found THEN Fail(withCovers, "define not found")
        ELSE IF Len(n.path) > 2 THEN executeNodes(def.body, withCovers)
        ELSE executeNodes(compiledAST[key], withCovers)

\* a faulty executeUse: the covers of the enclosing use stay active under the
\* covers of this one
executeUseInheritCovers(n, ctx) ==
    LET key == <<n.path[1], n.path[2]>>
        own == CoverMap(n.covers)
        withCovers ==
            [ctx EXCEPT !.covers = [c \in DOMAIN own \cup DOMAIN ctx.covers |->
                                       IF c \in DOMAIN own THEN own[c] ELSE ctx.covers[c]]]
        def == findDefine(compiledAST[key], n.path[3])
        restore == Frame("use", <<>>, n, VNil, <<>>, [NoSaved EXCEPT !.covers = ctx.covers])
    IN  IF Len(n.path) < 2 THEN Fail(ctx, "invalid use path")
        ELSE IF key \notin DOMAIN compiledAST THEN Fail(ctx, "template not found")
        ELSE IF Len(n.path) > 2 /\ ~def.found THEN Fail(withCovers, "define not found")
        ELSE IF Len(n.path) > 2 THEN executeNodes(def.body, Push(withCovers, restore))
        ELSE executeNodes(compiledAST[key], Push(withCovers, restore))

executeUse(n, ctx) ==
    LET key == <<n.path[1], n.path[2]>>
        withCovers == [ctx EXCEPT !.covers = CoverMap(n.covers)]
        def == findDefine(compiledAST[key], n.path[3])
        \* ctx.covers = oldCovers, once the nodes have been executed
        restore == Frame("use", <<>>, n, VNil, <<>>, [NoSaved EXCEPT !.covers = ctx.covers])
    IN  IF Len(n.path) < 2 THEN Fail(ctx, "invalid use path")
        ELSE IF key \notin DOMAIN compiledAST THEN Fail(ctx, "template not found")
        ELSE IF Len(n.path) > 2 /\ ~def.found THEN Fail(withCovers, "define not found")
        ELSE IF Len(n.path) > 2 THEN executeNodes(def.body, Push(withCovers, restore))
        ELSE executeNodes(compiledAST[key], Push(withCovers, restore))

\* a faulty executeDefine: the define's own body still runs after its cover
executeDefineBoth(n, ctx) ==
    IF n.name \in DOMAIN ctx.covers
    THEN executeNodes(ctx.covers[n.name], executeNodes(n.body, ctx))
    ELSE executeNodes(n.body, ctx)

\* the last segment of a dotted cover name
LastSegment(name) == IF name = "abc.d" THEN "d" ELSE name

\* a faulty executeDefine: a cover named by a dotted path is used for the
\* define its last segment names
executeDefineByPath(n, ctx) ==
    LET named == {c \in DOMAIN ctx.covers : LastSegment(c) = n.name}
    IN  IF named # {}
        THEN executeNodes(ctx.covers[CHOOSE c \in named : TRUE], ctx)
        ELSE executeNodes(n.body, ctx)

\* the cover stays active while its body runs; a call chain MaxDepth deep
\* stands for one that grows until the goroutine's stack is exhausted
executeDefine(n, ctx) ==
    IF n.name \in DOMAIN ctx.covers
    THEN IF Len(ctx.stack) >= MaxDepth THEN Fail(ctx, NeverReturns)
         ELSE executeNodes(ctx.covers[n.name], ctx)
    ELSE executeNodes(n.body, ctx)

\* a faulty executeFuncBlock: the block's nodes write into the caller's
\* buffer and parameter list
executeFuncBlockShared(n, ctx) ==
    executeNodes(n.body, Push(ctx, Frame("block", <<>>, n, VNil, <<>>, NoSaved)))

\* executeFuncBlock up to subCtx.executeNodes(n.Body): the block's nodes write
\* to a sql and args of their own
executeFuncBlock(n, ctx) ==
    executeNodes(n.body,
                 Push([ctx EXCEPT !.sql = <<>>, !.args = <<>>],
                      Frame("block", <<>>, n, VNil, <<>>,
                            [NoSaved EXCEPT !.sql = ctx.sql, !.args = ctx.args])))

\* a faulty executeFuncBlock: a call that cannot be made fails the render
callFuncBlockOrFail(fr, sub) ==
    LET n == fr.node
        query == [sql |-> sub.sql, args |-> sub.args]
        inScope == n.name \in DOMAIN sub.scope /\ sub.scope[n.name].kind = "func"
        what == IF inScope THEN sub.scope[n.name].s ELSE ""
        direct == ~n.conditional /\ inScope /\ what \in {"ptrq", "valq"}
        called == inScope /\ what = "ptrq"
        out == CallWithQuery(what, query)
    IN  IF direct \/ called
        THEN [sub EXCEPT !.sql = fr.saved.sql \o out.sql, !.args = fr.saved.args \o out.args]
        ELSE Fail([sub EXCEPT !.sql = fr.saved.sql, !.args = fr.saved.args],
                  "function call failed")

\* executeFuncBlock after subCtx.executeNodes(n.Body): sub is the context
\* the block's nodes left, fr.saved the caller's sql and args
callFuncBlock(fr, sub) ==
    LET n == fr.node
        query == [sql |-> sub.sql, args |-> sub.args]
        inScope == n.name \in DOMAIN sub.scope /\ sub.scope[n.name].kind = "func"
        what == IF inScope THEN sub.scope[n.name].s ELSE ""
        direct == ~n.conditional /\ inScope /\ what \in {"ptrq", "valq"}
        \* the call through the interpreter, with __query__ as the last argument
        called == inScope /\ what = "ptrq"
        out == IF direct \/ called THEN CallWithQuery(what, query) ELSE query
        scope1 == IF direct THEN sub.scope ELSE Bind(sub.scope, "__query__", VPtr(TRUE))
    IN  [sub EXCEPT !.scope = scope1, !.sql = fr.saved.sql \o out.sql,
                    !.args = fr.saved.args \o out.args]

\* the switch of executeNode; conditional_line and code nodes are not among
\* the nodes the templates here are parsed into
executeNode(n, ctx) ==
    CASE n.type = "text" -> [ctx EXCEPT !.sql = @ \o n.text]
      [] n.type = "var" -> executeVarNode(n, ctx)
      [] n.type = "var_expr" -> executeVarExprNode(n, ctx)
      [] n.type = "raw" -> executeRawNode(n, ctx)
      [] n.type = "raw_expr" -> executeRawExprNode(n, ctx)
      [] n.type = "if" -> executeIf(n, ctx)
      [] n.type = "for" -> executeFor(n, ctx)
      [] n.type = "use" -> executeUse(n, ctx)
      [] n.type = "define" -> executeDefine(n, ctx)
      [] n.type = "func_block" -> executeFuncBlock(n, ctx)
      [] OTHER -> Fail(ctx, "unknown node type")

\* a handler returning err: every caller returns it at once; the caller's
\* sql and args were never the block's
returnErr(fr, ctx) ==
    IF fr.kind = "block"
    THEN [ctx EXCEPT !.sql = fr.saved.sql, !.args = fr.saved.args]
    ELSE ctx

\* what the frame on top of the stack does next
resume(fr, ctx) ==
    CASE ctx.err # "" -> returnErr(fr, ctx)
      [] fr.kind = "nodes" ->
            IF fr.nodes = <<>> THEN ctx
            ELSE executeNode(Head(fr.nodes), Push(ctx, [fr EXCEPT !.nodes = Tail(@)]))
      [] fr.kind = "range" -> rangeLoop(fr, ctx)
      [] fr.kind \in {"counted", "post"} -> countedLoop(fr, ctx)
      [] fr.kind = "use" -> [ctx EXCEPT !.covers = fr.saved.covers]
      [] OTHER -> callFuncBlock(fr, ctx)

\* the execution of everything called, to the return of the outermost call
RECURSIVE run(_)

run(ctx) ==
    IF ctx.stack = <<>> THEN ctx
    ELSE run(resume(Head(ctx.stack), [ctx EXCEPT !.stack = Tail(@)]))

(***************************************************************************)
(* Record types passed as args, and the type cache.  reflect lists a       *)
(* type's method set in name order: T has the value-receiver methods, *T   *)
(* has all of them.  A method, when called, returns its own name.          *)
(***************************************************************************)
\* the methods of a record type, in name order
TypeMethods(t) ==
    IF t = "User"
    THEN <<[name |-> "Alias", ptr |-> TRUE], [name |-> "Label", ptr |-> FALSE]>>
    ELSE <<>>

IsValueReceiver(m) == ~m.ptr

\* reflect.Type.Method(i) ranges over this sequence (i from 0)
MethodSet(t, isPtr) ==
    IF isPtr THEN TypeMethods(t) ELSE SelectSeq(TypeMethods(t), IsValueReceiver)

MethodIndex(set) == [nm \in {set[i].name : i \in 1..Len(set)} |->
                        (CHOOSE i \in 1..Len(set) : set[i].name = nm) - 1]

\* buildTypeInfo(t, origType): t is the element type, origType is not read
buildTypeInfo(t, origIsPtr) ==
    LET ms == MethodIndex(MethodSet(t, FALSE))
        ps == MethodIndex(MethodSet(t, TRUE))
    IN  [Methods |-> ms,
         PtrMethods |-> [nm \in DOMAIN ps \ DOMAIN ms |-> ps[nm]]]

\* GetTypeInfo: the cache after the call; the entry returned is cache[t]
GetTypeInfo(cache, t, origIsPtr) ==
    IF t \in DOMAIN cache THEN cache
    ELSE [x \in DOMAIN cache \cup {t} |->
            IF x = t THEN buildTypeInfo(t, origIsPtr) ELSE cache[x]]

\* the reflect type of an argument value: its name, and whether it is a pointer
TypeName(v) == IF v.kind = "struct" THEN v.s ELSE v.kind
IsPtrArg(v) == v.kind = "struct" /\ v.n = 1

\* a record argument: type t, fields ks[i] = vs[i], passed by pointer or by value
VStruct(t, byPtr, ks, vs) ==
    [kind |-> "struct", n |-> IF byPtr THEN 1 ELSE 0, s |-> t, elems |-> vs, keys |-> ks]

toLowerFirst(name) ==
    CASE name = "Id" -> "id"
      [] name = "X" -> "x"
      [] OTHER -> name

\* rv.Method(i).Interface() for rv of type t (a pointer when isPtr)
\* (an index outside the method set makes reflect panic)
MethodValue(t, isPtr, i) ==
    IF i + 1 <= Len(MethodSet(t, isPtr)) THEN VFunc(MethodSet(t, isPtr)[i + 1].name)
    ELSE VFunc("panic: reflect: Method index out of range")

RECURSIVE bindAll(_, _, _, _, _)
\* one range over a method table: bind every name not yet in scope
bindAll(scope, names, table, t, isPtr) ==
    IF names = {} THEN scope
    ELSE LET nm == CHOOSE x \in names : TRUE
             s1 == IF nm \in DOMAIN scope THEN scope
                   ELSE Bind(scope, nm, MethodValue(t, isPtr, table[nm]))
         IN  bindAll(s1, names \ {nm}, table, t, isPtr)

\* bindMethodsWithCache(rv), with typeInfo the cached entry of rv's type
bindMethodsWithCache(scope, typeInfo, rv) ==
    LET t == TypeName(rv)
        s1 == bindAll(scope, DOMAIN typeInfo.Methods, typeInfo.Methods, t, IsPtrArg(rv))
    IN  IF ~IsPtrArg(rv)
        THEN bindAll(s1, DOMAIN typeInfo.PtrMethods, typeInfo.PtrMethods, t, TRUE)
        ELSE bindAll(s1, DOMAIN typeInfo.Methods, typeInfo.Methods, t, TRUE)

RECURSIVE expandStructFields(_, _, _)
expandStructFields(scope, rv, i) ==
    IF i > Len(rv.keys) THEN scope
    ELSE expandStructFields(
            Bind(Bind(scope, toLowerFirst(rv.keys[i]), rv.elems[i]), rv.keys[i], rv.elems[i]),
            rv, i + 1)

RECURSIVE expandMap(_, _, _)
expandMap(scope, rv, i) ==
    IF i > Len(rv.keys) THEN scope
    ELSE expandMap(Bind(scope, rv.keys[i], rv.elems[i]), rv, i + 1)

\* expandToScopeWithCache(args), given the cache after its GetTypeInfo call
expandToScopeWithCache(scope, cache, args) ==
    CASE args.kind = "struct" ->
            bindMethodsWithCache(expandStructFields(scope, args, 1),
                                 cache[TypeName(args)], args)
      [] args.kind = "map" -> expandMap(scope, args, 1)
      [] OTHER -> scope

\* a faulty getScope: the pool hands out the map of the render before, as
\* that render's arguments filled it
getScopeUncleared ==
    IF last.called /\ last.args.kind = "map" THEN expandMap(EmptyScope, last.args, 1)
    ELSE EmptyScope

\* getScope(): a map of the pool, emptied
getScope == EmptyScope

\* newExecutionContext(engine, args); cache is the type cache it leaves
newExecutionContext(args, order) ==
    LET cache == IF args.kind = "nil" THEN typeCache
                 ELSE GetTypeInfo(typeCache, TypeName(args), IsPtrArg(args))
        withFuncs == [x \in DOMAIN getScope \cup DOMAIN funcs |->
                        IF x \in DOMAIN funcs THEN funcs[x] ELSE getScope[x]]
    IN  [scope |-> IF args.kind = "nil" THEN withFuncs
                   ELSE expandToScopeWithCache(withFuncs, cache, args),
         sql |-> <<>>, args |-> <<>>, covers |-> NoCovers, err |-> "", iters |-> 0,
         order |-> order, cache |-> cache, stack |-> <<>>]

(***************************************************************************)
(* The Engine's operations.                                                *)
(***************************************************************************)
EmptyQuery == [SQL |-> <<>>, Params |-> <<>>]

\* what GetSql returns: (Query, error), and the type cache it leaves behind
Returned(q, e, cache) == [query |-> q, err |-> e, cache |-> cache]

\* a faulty GetSql: what was rendered before the failure is returned with it
GetSqlResultPartial(path, args, order) ==
    LET key == <<path[1], path[2]>>
        ctx == newExecutionContext(args, order)
        def == findDefine(compiledAST[key], path[3])
        done == IF Len(path) > 2 THEN run(executeNodes(def.body, ctx))
                ELSE run(executeNodes(compiledAST[key], ctx))
    IN  IF Len(path) < 2 THEN Returned(EmptyQuery, "invalid path", typeCache)
        ELSE IF key \notin DOMAIN compiledAST
             THEN Returned(EmptyQuery, "template not found", typeCache)
        ELSE IF Len(path) > 2 /\ ~def.found
             THEN Returned(EmptyQuery, "define not found", ctx.cache)
        ELSE Returned([SQL |-> done.sql, Params |-> done.args], done.err, ctx.cache)

\* a faulty GetSql: the execution context is created before the path is
\* looked at
GetSqlResultContextFirst(path, args, order) ==
    LET key == <<path[1], path[2]>>
        ctx == newExecutionContext(args, order)
        def == findDefine(compiledAST[key], path[3])
        done == IF Len(path) > 2 THEN run(executeNodes(def.body, ctx))
                ELSE run(executeNodes(compiledAST[key], ctx))
    IN  IF Len(path) < 2 THEN Returned(EmptyQuery, "invalid path", ctx.cache)
        ELSE IF key \notin DOMAIN compiledAST
             THEN Returned(EmptyQuery, "template not found", ctx.cache)
        ELSE IF Len(path) > 2 /\ ~def.found
             THEN Returned(EmptyQuery, "define not found", ctx.cache)
        ELSE IF done.err # "" THEN Returned(EmptyQuery, done.err, ctx.cache)
        ELSE Returned([SQL |-> done.sql, Params |-> done.args], "", ctx.cache)

GetSqlResult(path, args, order) ==
    LET key == <<path[1], path[2]>>
        ctx == newExecutionContext(args, order)
        def == findDefine(compiledAST[key], path[3])
        done == IF Len(path) > 2 THEN run(executeNodes(def.body, ctx))
                ELSE run(executeNodes(compiledAST[key], ctx))
    IN  IF Len(path) < 2 THEN Returned(EmptyQuery, "invalid path", typeCache)
        ELSE IF key \notin DOMAIN compiledAST
             THEN Returned(EmptyQuery, "template not found", typeCache)
        ELSE IF Len(path) > 2 /\ ~def.found
             THEN Returned(EmptyQuery, "define not found", ctx.cache)
        ELSE IF done.err # "" THEN Returned(EmptyQuery, done.err, ctx.cache)
        ELSE Returned([SQL |-> done.sql, Params |-> done.args], "", ctx.cache)

\* a call of the history; since counts the calls made after it (2: two or more)
NoCall ==
    [called |-> FALSE, path |-> <<>>, args |-> VNil, query |-> EmptyQuery, err |-> "",
     since |-> 0]

\* a faulty GetSql: the define a three-part path names is kept as the whole
\* template of its key
GetSqlKeepingDefine(path, args, order, remember) ==
    LET r == GetSqlResult(path, args, order)
        key == <<path[1], path[2]>>
        call == [called |-> TRUE, path |-> path, args |-> args, query |-> r.query,
                 err |-> r.err, since |-> 0]
    IN  /\ r.err # NeverReturns
        /\ last' = call
        /\ first' = IF remember THEN call
                    ELSE IF first.called /\ first.since < 2
                         THEN [first EXCEPT !.since = @ + 1]
                         ELSE first
        /\ typeCache' = r.cache
        /\ compiledAST' =
              IF Len(path) > 2 /\ key \in DOMAIN compiledAST
              THEN [compiledAST EXCEPT ![key] = findDefine(compiledAST[key], path[3]).body]
              ELSE compiledAST
        /\ UNCHANGED <<funcs, mu, calls, built, pools, lexer, parser, store, loadErr>>

\* Engine.GetSql(path, args).  order is how this render's map iterations
\* deliver their keys; remember asks the history to keep this call.
GetSql(path, args, order, remember) ==
    LET r == GetSqlResult(path, args, order)
        call == [called |-> TRUE, path |-> path, args |-> args, query |-> r.query,
                 err |-> r.err, since |-> 0]
    IN  /\ r.err # NeverReturns
        /\ last' = call
        /\ first' = IF remember THEN call
                    ELSE IF first.called /\ first.since < 2
                         THEN [first EXCEPT !.since = @ + 1]
                         ELSE first
        /\ typeCache' = r.cache
        /\ UNCHANGED <<compiledAST, funcs, mu, calls, built, pools, lexer, parser, store, loadErr>>

\* a template content that ParseTemplate rejects, as that of TestErrorMessage
Uncompilable == <<[NodeBase EXCEPT !.type = "syntax error"]>>

\* the entries of a map m overwritten by those of w
Overwritten(m, w) ==
    [k \in DOMAIN m \cup DOMAIN w |-> IF k \in DOMAIN w THEN w[k] ELSE m[k]]

\* the entries of a map m at the keys ks
Restricted(m, ks) == [k \in ks |-> m[k]]

\* Engine.LoadMarkdown(content), for a content that ParseMarkdown accepts: doc
\* maps each key of the document to the template's content, a content that
\* compiles being given as the node list it is parsed into.  The templates
\* of the document are stored, then every template of the store is
\* compiled, in the order the store's map delivers them, up to the first
\* that does not compile.
LoadMarkdown(doc) ==
    LET templates == Overwritten(store, doc)
        failing == {k \in DOMAIN templates : templates[k] = Uncompilable}
    IN  /\ store' = templates
        /\ IF failing = {}
           THEN /\ compiledAST' = Overwritten(compiledAST, templates)
                /\ loadErr' = ""
           ELSE /\ \E compiled \in SUBSET (DOMAIN templates \ failing) :
                      compiledAST' = Overwritten(compiledAST, Restricted(templates, compiled))
                /\ loadErr' = "template error"
        /\ last' = NoCall
        /\ first' = NoCall
        /\ UNCHANGED <<funcs, typeCache, mu, calls, built, pools, lexer, parser>>

\* Engine.RegisterFunc(name, fn)
RegisterFunc(name, fn) ==
    /\ funcs' = Bind(funcs, name, fn)
    /\ last' = NoCall
    /\ first' = NoCall
    /\ UNCHANGED <<compiledAST, typeCache, mu, calls, built, pools, lexer, parser, store, loadErr>>

(***************************************************************************)
(* GetSql calls made by several goroutines at once.  A call goes through   *)
(*   "rlock"    GetTypeInfo, about to take the read lock                   *)
(*   "read"     holding the read lock, about to read the cache map         *)
(*   "runlock"  has read the map, about to release the read lock           *)
(*   "lock"     missed, about to take the write lock                       *)
(*   "recheck"  holding the write lock, about to read the map again and,   *)
(*              on a second miss, build the entry and insert it            *)
(*   "unlock"   about to release the write lock (the deferred Unlock)      *)
(*   "execute"  the context is ready, the nodes are about to be executed   *)
(*   "done"     GetSql has returned query and err                          *)
(* lookups is the number of GetTypeInfo calls the context still makes;     *)
(* info is the entry the latest one returned and gen tells which build of  *)
(* its type made it (0: none returned yet); waited tells the call took the *)
(* write lock.                                                             *)
(***************************************************************************)
Goroutines == {"g1", "g2"}

Unlocked == [readers |-> {}, writer |-> "none"]

NoInfo == [Methods |-> <<>>, PtrMethods |-> <<>>]

Idle ==
    [pc |-> "idle", path |-> <<>>, args |-> VNil, order |-> "fwd", lookups |-> 0,
     ok |-> FALSE, info |-> NoInfo, gen |-> 0, waited |-> FALSE,
     query |-> EmptyQuery, err |-> ""]

\* the GetTypeInfo calls of newExecutionContext(engine, args): one in
\* expandToScopeWithCache, for a record one more in bindMethodsWithCache and
\* a third there when the record is passed by pointer
Lookups(args) ==
    CASE args.kind = "nil" -> 0
      [] args.kind = "struct" -> IF IsPtrArg(args) THEN 3 ELSE 2
      [] OTHER -> 1

\* how often a type's entry was built, 0 for a type never looked up
Builds(t) == IF t \in DOMAIN built THEN built[t] ELSE 0

\* GetTypeInfo returning to newExecutionContext: the next GetTypeInfo call, or
\* the execution of the nodes
Returning(c) ==
    [c EXCEPT !.lookups = @ - 1, !.pc = IF c.lookups > 1 THEN "rlock" ELSE "execute"]

\* GetSql entered by goroutine g: the path is split and the template looked
\* up; the context is created when both succeed
Call(g, path, args, order) ==
    LET c == [Idle EXCEPT !.path = path, !.args = args, !.order = order]
        key == <<path[1], path[2]>>
    IN  /\ calls[g].pc = "idle"
        /\ calls' = [calls EXCEPT ![g] =
              IF Len(path) < 2 THEN [c EXCEPT !.pc = "done", !.err = "invalid path"]
              ELSE IF key \notin DOMAIN compiledAST
                   THEN [c EXCEPT !.pc = "done", !.err = "template not found"]
              ELSE IF Lookups(args) = 0 THEN [c EXCEPT !.pc = "execute"]
              ELSE [c EXCEPT !.pc = "rlock", !.lookups = Lookups(args)]]
        /\ UNCHANGED <<compiledAST, funcs, typeCache, last, first, mu, built, pools, lexer, parser, store, loadErr>>

\* globalTypeCache.mu.RLock()
RLock(g) ==
    /\ calls[g].pc = "rlock"
    /\ mu.writer = "none"
    /\ mu' = [mu EXCEPT !.readers = @ \cup {g}]
    /\ calls' = [calls EXCEPT ![g].pc = "read"]
    /\ UNCHANGED <<compiledAST, funcs, typeCache, last, first, built, pools, lexer, parser, store, loadErr>>

\* info, ok := globalTypeCache.cache[t]
ReadCache(g) ==
    LET t == TypeName(calls[g].args)
        ok == t \in DOMAIN typeCache
    IN  /\ calls[g].pc = "read"
        /\ calls' = [calls EXCEPT ![g] =
              IF ok THEN [@ EXCEPT !.pc = "runlock", !.ok = TRUE, !.info = typeCache[t],
                                   !.gen = Builds(t)]
              ELSE [@ EXCEPT !.pc = "runlock", !.ok = FALSE]]
        /\ UNCHANGED <<compiledAST, funcs, typeCache, last, first, mu, built, pools, lexer, parser, store, loadErr>>

\* globalTypeCache.mu.RUnlock(), and the return of the entry that was found
RUnlock(g) ==
    /\ calls[g].pc = "runlock"
    /\ mu' = [mu EXCEPT !.readers = @ \ {g}]
    /\ calls' = [calls EXCEPT ![g] =
          IF calls[g].ok THEN Returning(@) ELSE [@ EXCEPT !.pc = "lock"]]
    /\ UNCHANGED <<compiledAST, funcs, typeCache, last, first, built, pools, lexer, parser, store, loadErr>>

\* globalTypeCache.mu.Lock()
Lock(g) ==
    /\ calls[g].pc = "lock"
    /\ mu = Unlocked
    /\ mu' = [mu EXCEPT !.writer = g]
    /\ calls' = [calls EXCEPT ![g].pc = "recheck", ![g].waited = TRUE]
    /\ UNCHANGED <<compiledAST, funcs, typeCache, last, first, built, pools, lexer, parser, store, loadErr>>

\* info = buildTypeInfo(t, origType); globalTypeCache.cache[t] = info
Insert(g) ==
    LET t == TypeName(calls[g].args)
        info == buildTypeInfo(t, IsPtrArg(calls[g].args))
    IN  /\ typeCache' = [x \in DOMAIN typeCache \cup {t} |->
                            IF x = t THEN info ELSE typeCache[x]]
        /\ built' = [x \in DOMAIN built \cup {t} |->
                        IF x = t THEN Builds(t) + 1 ELSE built[x]]
        /\ calls' = [calls EXCEPT ![g].pc = "unlock", ![g].info = info,
                                  ![g].gen = Builds(t) + 1]

\* a faulty GetTypeInfo: the entry is built and inserted without the second
\* look at the map
InsertUnchecked(g) ==
    /\ calls[g].pc = "recheck"
    /\ Insert(g)
    /\ UNCHANGED <<compiledAST, funcs, last, first, mu, pools, lexer, parser, store, loadErr>>

\* the second look at the map, under the write lock, and the build and
\* insertion when the entry is still missing
Recheck(g) ==
    LET t == TypeName(calls[g].args)
    IN  /\ calls[g].pc = "recheck"
        /\ IF t \in DOMAIN typeCache
           THEN /\ calls' = [calls EXCEPT ![g].pc = "unlock", ![g].info = typeCache[t],
                                          ![g].gen = Builds(t)]
                /\ UNCHANGED <<typeCache, built>>
           ELSE Insert(g)
        /\ UNCHANGED <<compiledAST, funcs, last, first, mu, pools, lexer, parser, store, loadErr>>

\* the deferred globalTypeCache.mu.Unlock(), and the return of the entry
Unlock(g) ==
    /\ calls[g].pc = "unlock"
    /\ mu' = [mu EXCEPT !.writer = "none"]
    /\ calls' = [calls EXCEPT ![g] = Returning(@)]
    /\ UNCHANGED <<compiledAST, funcs, typeCache, last, first, built, pools, lexer, parser, store, loadErr>>

\* a faulty engine: one execution context, the one created last, serves
\* every render
contextOfEngine(g) ==
    IF \E h \in Goroutines \ {g} : calls[h].pc \notin {"idle", "done"}
    THEN calls[CHOOSE h \in Goroutines \ {g} : calls[h].pc \notin {"idle", "done"}]
    ELSE calls[g]

\* the execution context of the call goroutine g is in: what the call was
\* given and the type information it obtained
contextOf(g) == calls[g]

\* the scope newExecutionContext leaves: the engine's functions, then the
\* arguments expanded with the type information the call obtained
scopeOf(c) ==
    LET withFuncs == [x \in DOMAIN getScope \cup DOMAIN funcs |->
                        IF x \in DOMAIN funcs THEN funcs[x] ELSE getScope[x]]
    IN  IF c.args.kind = "nil" THEN withFuncs
        ELSE expandToScopeWithCache(withFuncs, [t \in {TypeName(c.args)} |-> c.info],
                                    c.args)

\* GetSql from the created context on: the define is looked for, the nodes
\* are executed and the Query is returned
Execute(g) ==
    LET c == contextOf(g)
        key == <<calls[g].path[1], calls[g].path[2]>>
        ctx == [scope |-> scopeOf(c), sql |-> <<>>, args |-> <<>>, covers |-> NoCovers,
                err |-> "", iters |-> 0, order |-> c.order, cache |-> typeCache,
                stack |-> <<>>]
        def == findDefine(compiledAST[key], calls[g].path[3])
        done == IF Len(calls[g].path) > 2 THEN run(executeNodes(def.body, ctx))
                ELSE run(executeNodes(compiledAST[key], ctx))
    IN  /\ calls[g].pc = "execute"
        /\ calls' = [calls EXCEPT ![g] =
              IF Len(calls[g].path) > 2 /\ ~def.found
              THEN [@ EXCEPT !.pc = "done", !.err = "define not found"]
              ELSE IF done.err # "" THEN [@ EXCEPT !.pc = "done", !.err = done.err]
              ELSE [@ EXCEPT !.pc = "done",
                             !.query = [SQL |-> done.sql, Params |-> done.args]]]
        /\ UNCHANGED <<compiledAST, funcs, typeCache, last, first, mu, built, pools, lexer, parser, store, loadErr>>

\* the caller has the result, and may call again
Return(g) ==
    /\ calls[g].pc = "done"
    /\ calls' = [calls EXCEPT ![g] = Idle]
    /\ UNCHANGED <<compiledAST, funcs, typeCache, last, first, mu, built, pools, lexer, parser, store, loadErr>>

(***************************************************************************)
(* The scratch pools.  A scope is a map, an args slice is its backing      *)
(* array and its length, a string builder is its buffer.  A sync.Pool      *)
(* hands out one of the objects put into it, or a new one.                 *)
(***************************************************************************)
NewScope == EmptyScope
NewArgsSlice == [array |-> <<>>, len |-> 0]
NewStringBuilder == [buf |-> <<>>]

RECURSIVE deleteKeys(_, _)
\* for k := range m { delete(m, k) }
deleteKeys(m, ks) ==
    IF ks = {} THEN m
    ELSE LET k == CHOOSE x \in ks : TRUE
         IN  deleteKeys([x \in DOMAIN m \ {k} |-> m[x]], ks \ {k})

\* a faulty getArgsSlice: the slice is handed out as it was put
asPut(s) == s

\* *s = (*s)[:0]
truncate(s) == [s EXCEPT !.len = 0]

\* sb.Reset()
Reset(sb) == [sb EXCEPT !.buf = <<>>]

\* held is the object as the pool gave it, obj the object as it is returned
HandedOut(kind, held, obj) == [kind |-> kind, held |-> held, obj |-> obj]

NoPools == [scope |-> {}, args |-> {}, sb |-> {}, out |-> HandedOut("none", <<>>, <<>>)]

\* getScope()
GetScope ==
    /\ \E m \in pools.scope \cup {NewScope} :
          pools' = [pools EXCEPT !.scope = @ \ {m},
                                 !.out = HandedOut("scope", m, deleteKeys(m, DOMAIN m))]
    /\ UNCHANGED <<compiledAST, funcs, typeCache, last, first, mu, calls, built, lexer, parser, store, loadErr>>

\* putScope(m)
PutScope(m) ==
    /\ pools' = [pools EXCEPT !.scope = @ \cup {m}]
    /\ UNCHANGED <<compiledAST, funcs, typeCache, last, first, mu, calls, built, lexer, parser, store, loadErr>>

\* getArgsSlice()
GetArgsSlice ==
    /\ \E a \in pools.args \cup {NewArgsSlice} :
          pools' = [pools EXCEPT !.args = @ \ {a}, !.out = HandedOut("args", a, truncate(a))]
    /\ UNCHANGED <<compiledAST, funcs, typeCache, last, first, mu, calls, built, lexer, parser, store, loadErr>>

\* putArgsSlice(s)
PutArgsSlice(a) ==
    /\ pools' = [pools EXCEPT !.args = @ \cup {a}]
    /\ UNCHANGED <<compiledAST, funcs, typeCache, last, first, mu, calls, built, lexer, parser, store, loadErr>>

\* getStringBuilder()
GetStringBuilder ==
    /\ \E sb \in pools.sb \cup {NewStringBuilder} :
          pools' = [pools EXCEPT !.sb = @ \ {sb}, !.out = HandedOut("sb", sb, Reset(sb))]
    /\ UNCHANGED <<compiledAST, funcs, typeCache, last, first, mu, calls, built, lexer, parser, store, loadErr>>

\* putStringBuilder(sb)
PutStringBuilder(sb) ==
    /\ pools' = [pools EXCEPT !.sb = @ \cup {sb}]
    /\ UNCHANGED <<compiledAST, funcs, typeCache, last, first, mu, calls, built, lexer, parser, store, loadErr>>

(***************************************************************************)
(* The Lexer, on template contents without '@'.  input is the content as   *)
(* its characters, pos counts from 0 as in the code; err is the error      *)
(* scanToken returned ("" is nil); at tells how far Tokenize is.           *)
(***************************************************************************)
Token(type, value, line, column) ==
    [type |-> type, value |-> value, line |-> line, column |-> column]

\* l.input[l.pos], "" when pos is at the end (the code's 0 byte)
peek(l) == IF l.pos >= Len(l.input) THEN "" ELSE l.input[l.pos + 1]

peekN(l, n) ==
    SubSeq(l.input, l.pos + 1, IF l.pos + n > Len(l.input) THEN Len(l.input) ELSE l.pos + n)

advance(l) ==
    IF l.input[l.pos + 1] = "\n"
    THEN [l EXCEPT !.pos = @ + 1, !.line = @ + 1, !.column = 1]
    ELSE [l EXCEPT !.pos = @ + 1, !.column = @ + 1]

\* unicode.IsSpace, on the characters of the contents here
IsSpace(ch) == ch \in {" ", "\t", "\n", "\r"}

RECURSIVE skipWhitespace(_)
skipWhitespace(l) ==
    IF l.pos < Len(l.input) /\ peek(l) \in {" ", "\t"} THEN skipWhitespace(advance(l)) ELSE l

RECURSIVE skipAllWhitespace(_)
skipAllWhitespace(l) ==
    IF l.pos < Len(l.input) /\ IsSpace(peek(l)) THEN skipAllWhitespace(advance(l)) ELSE l

\* strings.TrimSpace
RECURSIVE TrimSpace(_)
TrimSpace(str) ==
    IF str = <<>> THEN str
    ELSE IF IsSpace(Head(str)) THEN TrimSpace(Tail(str))
    ELSE IF IsSpace(str[Len(str)]) THEN TrimSpace(SubSeq(str, 1, Len(str) - 1))
    ELSE str

\* readUntilBrace, with sb the characters read so far: the lexer it leaves,
\* the text and whether a '{' was found
RECURSIVE readUntilBrace(_, _)
readUntilBrace(l, sb) ==
    IF l.pos >= Len(l.input) THEN [l |-> l, text |-> <<>>, ok |-> FALSE]
    ELSE IF peek(l) = "{" THEN [l |-> l, text |-> sb, ok |-> TRUE]
    ELSE readUntilBrace(advance(l), Append(sb, peek(l)))

\* the append of a token and of the open-brace token at the lexer's place,
\* and the advance over the '{'
withBrace(l, tok) ==
    advance([l EXCEPT !.tokens = @ \o <<tok, Token("LBRACE", <<>>, l.line, l.column)>>])

\* a faulty scanCloseBrace: the place is not restored when no else follows
scanCloseBraceNoRestore(l) ==
    LET start == l
        looked == skipAllWhitespace(advance(l))
        afterElse == skipWhitespace([looked EXCEPT !.pos = @ + 4, !.column = @ + 4])
        afterIf == skipWhitespace([afterElse EXCEPT !.pos = @ + 2, !.column = @ + 2])
        cond == readUntilBrace(afterIf, <<>>)
        isElse == peekN(looked, 4) = <<"e", "l", "s", "e">>
    IN  IF isElse /\ peekN(afterElse, 2) = <<"i", "f">>
        THEN IF ~cond.ok THEN [cond.l EXCEPT !.err = "expected '{' but reached end of input"]
             ELSE withBrace(cond.l, Token("ELSE_IF", TrimSpace(cond.text),
                                          start.line, start.column))
        ELSE IF isElse /\ peek(afterElse) = "{"
        THEN withBrace(afterElse, Token("ELSE", <<>>, start.line, start.column))
        ELSE [looked EXCEPT !.tokens =
                 Append(@, Token("RBRACE", <<>>, start.line, start.column))]

scanCloseBrace(l) ==
    LET start == l
        saved == advance(l)
        looked == skipAllWhitespace(saved)
        afterElse == skipWhitespace([looked EXCEPT !.pos = @ + 4, !.column = @ + 4])
        afterIf == skipWhitespace([afterElse EXCEPT !.pos = @ + 2, !.column = @ + 2])
        cond == readUntilBrace(afterIf, <<>>)
        isElse == peekN(looked, 4) = <<"e", "l", "s", "e">>
    IN  IF isElse /\ peekN(afterElse, 2) = <<"i", "f">>
        THEN IF ~cond.ok THEN [cond.l EXCEPT !.err = "expected '{' but reached end of input"]
             ELSE withBrace(cond.l, Token("ELSE_IF", TrimSpace(cond.text),
                                          start.line, start.column))
        ELSE IF isElse /\ peek(afterElse) = "{"
        THEN withBrace(afterElse, Token("ELSE", <<>>, start.line, start.column))
        ELSE [saved EXCEPT !.tokens =
                 Append(@, Token("RBRACE", <<>>, start.line, start.column))]

\* the loop of scanText, with sb the characters read so far
RECURSIVE readText(_, _)
readText(l, sb) ==
    IF l.pos < Len(l.input) /\ peek(l) \notin {"@", "}"}
    THEN readText(advance(l), Append(sb, peek(l)))
    ELSE [l |-> l, text |-> sb]

scanText(l) ==
    LET r == readText(l, <<>>)
    IN  IF r.text = <<>> THEN r.l
        ELSE [r.l EXCEPT !.tokens = Append(@, Token("TEXT", r.text, l.line, l.column))]

\* scanToken; the contents here have no '@', so scanAtToken is never entered
scanToken(l) == IF peek(l) = "}" THEN scanCloseBrace(l) ELSE scanText(l)

(***************************************************************************)
(* The TemplateParser, on the tokens the lexer makes of those contents:    *)
(* TEXT, LBRACE, RBRACE, ELSE_IF, ELSE and EOF.                            *)
(***************************************************************************)
peekToken(p) ==
    IF p.pos >= Len(p.tokens) THEN Token("EOF", <<>>, 0, 0) ELSE p.tokens[p.pos + 1]

check(p, type) == peekToken(p).type = type

isAtEnd(p) == check(p, "EOF")

\* parseNode, for the token types above
parseNode(p) ==
    CASE check(p, "TEXT") ->
            [p EXCEPT !.pos = @ + 1, !.nodes = Append(@, TextNode(peekToken(p).value))]
      [] check(p, "LBRACE") -> [p EXCEPT !.pos = @ + 1]
      [] OTHER -> p

\* parseNodes, as Parse calls it: the list ends at EOF and at a close brace,
\* an else-if and an else, which are left to the caller
RECURSIVE parseNodes(_)
parseNodes(p) ==
    IF ~isAtEnd(p) /\ ~check(p, "RBRACE") /\ ~check(p, "ELSE_IF") /\ ~check(p, "ELSE")
    THEN parseNodes(parseNode(p))
    ELSE p

\* NewLexer(input), for ParseTemplate(content) called once the call before
\* it has returned
NewLexer(input) ==
    /\ lexer.at \in {"none", "failed"} \/ parser.at # "none"
    /\ lexer' = [input |-> input, pos |-> 0, line |-> 1, column |-> 1, tokens |-> <<>>,
                 err |-> "", at |-> "scanning"]
    /\ parser' = [tokens |-> <<>>, pos |-> 0, nodes |-> <<>>, err |-> "", at |-> "none"]
    /\ UNCHANGED <<compiledAST, funcs, typeCache, last, first, mu, calls, built, pools,
                   store, loadErr>>

\* one turn of the loop of Tokenize
ScanToken ==
    /\ lexer.at = "scanning" /\ lexer.pos < Len(lexer.input)
    /\ lexer' = LET l == scanToken(lexer)
                IN  IF l.err # "" THEN [l EXCEPT !.at = "failed"] ELSE l
    /\ UNCHANGED <<compiledAST, funcs, typeCache, last, first, mu, calls, built, pools,
                   parser, store, loadErr>>

\* the end of Tokenize: the EOF token
Tokenize ==
    /\ lexer.at = "scanning" /\ lexer.pos >= Len(lexer.input)
    /\ lexer' = [lexer EXCEPT !.at = "tokenized",
                              !.tokens = Append(@, Token("EOF", <<>>, lexer.line,
                                                         lexer.column))]
    /\ UNCHANGED <<compiledAST, funcs, typeCache, last, first, mu, calls, built, pools,
                   parser, store, loadErr>>

\* NewTemplateParser(tokens).Parse()
Parse ==
    /\ lexer.at = "tokenized" /\ parser.at = "none"
    /\ parser' = LET p == parseNodes([parser EXCEPT !.tokens = lexer.tokens])
                 IN  [p EXCEPT !.at = IF p.err # "" THEN "failed" ELSE "parsed"]
    /\ UNCHANGED <<compiledAST, funcs, typeCache, last, first, mu, calls, built, pools,
                   lexer, store, loadErr>>

\* no lexer and no parser at work
NoLexer == [input |-> <<>>, pos |-> 0, line |-> 1, column |-> 1, tokens |-> <<>>,
            err |-> "", at |-> "none"]
NoParser == [tokens |-> <<>>, pos |-> 0, nodes |-> <<>>, err |-> "", at |-> "none"]

\* New(), with the process-wide type cache still empty
Init ==
    /\ compiledAST = [k \in {} |-> <<>>]
    /\ funcs = EmptyScope
    /\ typeCache = [t \in {} |-> [Methods |-> <<>>, PtrMethods |-> <<>>]]
    /\ last = NoCall
    /\ first = NoCall
    /\ mu = Unlocked
    /\ calls = [g \in Goroutines |-> Idle]
    /\ built = [t \in {} |-> 0]
    /\ pools = NoPools
    /\ lexer = NoLexer
    /\ parser = NoParser
    /\ store = [k \in {} |-> <<>>]
    /\ loadErr = ""

(***************************************************************************)
(* Inputs: the documents loaded, the arguments rendered with.              *)
(***************************************************************************)
Main == <<"test", "main">>
Base == <<"test", "base">>

\* a document with the two templates test.main and test.base
Doc(main, base) == [k \in {Main, Base} |-> IF k = Main THEN main ELSE base]

\* values given to the variable ids
IdsValues ==
    {VNil, VBool(FALSE), VBool(TRUE), VInt(0), VInt(2), VStr(""), VStr("s"),
     VNilSlice, VSlice(<<>>), VSlice(<<VInt(1), VInt(2), VInt(3)>>),
     VMap(<<>>, <<>>), VMap(<<"p", "q">>, <<VInt(7), VInt(8)>>),
     VPtr(FALSE), VPtr(TRUE)}

MapArgs ==
    {VMap(<<>>, <<>>), VMap(<<"id">>, <<VInt(1)>>), VMap(<<"ids">>, <<VInt(2)>>)}
    \cup {VMap(<<"id", "ids">>, <<VInt(1), v>>) : v \in IdsValues}

StructArgs == {VStruct("User", p, <<"Id">>, <<VInt(1)>>) : p \in BOOLEAN}

Orders == {"fwd", "rev"}

\* ---- templates made of text and placeholders only
Texts1 == {<<"a = ">>, <<"a", "\n", "  and b = ">>}
Texts2 == {<<" and c = ">>, <<"\n", "  and c = ">>}
Placeholders ==
    {VarNode("id", FALSE), VarNode("ids", FALSE), VarNode("ids", TRUE),
     RawNode("ids", TRUE), VarExprNode(EVar("ids"), FALSE),
     VarExprNode(EVar("ids"), TRUE)}

FlatTemplates ==
    {<<TextNode(t1), p1, TextNode(t2), p2, TextNode(<<"\n", "end">>)>> :
        t1 \in Texts1, p1 \in Placeholders, t2 \in Texts2, p2 \in Placeholders}

\* select * from t where id = @id and id in (@ids)   (TestBasicSQL)
BasicTemplate ==
    <<TextNode(<<"select * from t where id = ">>), VarNode("id", FALSE),
      TextNode(<<" and id in (">>), VarNode("ids", FALSE), TextNode(<<")">>)>>

FlatDocuments == {Doc(t, <<>>) : t \in FlatTemplates \cup {BasicTemplate}}

\* ---- templates with control flow and composition (after gosql_test.go)
BasePath == <<"test", "base">>

\* sql2: @if id > 0 { and ids = @ids } else if id < 0 { and id = @id } else { and none }
IfTemplate ==
    <<TextNode(<<"select", "\n">>),
      IfNode(EGt("id", 0), <<TextNode(<<" and ids = ">>), VarNode("ids", FALSE)>>,
             <<ElseIfNode(ELt("id", 0), <<TextNode(<<" and id = ">>), VarNode("id", FALSE)>>)>>,
             TRUE, <<TextNode(<<" and none">>)>>)>>

\* sql5: @for i := a; i < b; i++ { and col@=i@ = @i }
ForTemplate(a, b) ==
    <<TextNode(<<"select", "\n">>),
      ForNode(CountedFor("i", ELit(a), ELt("i", b), "++", "i", NoExpr),
              <<TextNode(<<" and col">>), RawNode("i", FALSE), TextNode(<<" = ">>),
                VarNode("i", FALSE)>>)>>

\* @for k, v := range ids { and id = @v }
RangeTemplate ==
    <<TextNode(<<"select", "\n">>),
      ForNode(RangeFor("k", "v", EVar("ids")),
              <<TextNode(<<" and id = ">>), VarNode("v", FALSE)>>)>>

\* x = @ Label() @ : a call of a method bound from a record argument
MethodTemplate == <<TextNode(<<"x = ">>), VarExprNode(ECall("Label"), FALSE)>>

\* @trim { and id = @id }
FuncBlockTemplate ==
    <<TextNode(<<"where ">>),
      FuncBlockNode("trim", FALSE, <<TextNode(<<"and">>), TextNode(<<" id = ">>),
                                     VarNode("id", FALSE)>>)>>

\* sql7_5: pre @define abc { and id = @id @define d { this is d block } tail } post
DBody == <<TextNode(<<" this is d block">>)>>
AbcBody(d) == <<TextNode(<<" and id = ">>), VarNode("id", FALSE), d, TextNode(<<" tail">>)>>
NestedBase ==
    <<TextNode(<<"pre">>), DefineNode("abc", AbcBody(DefineNode("d", DBody))),
      TextNode(<<" post">>)>>

\* the cover bodies of sql8 and sql8_2, and one with a placeholder
AbcChanged == <<TextNode(<<" abc block changed">>)>>
DChanged == <<TextNode(<<" d block changed">>)>>
DWithParam == <<TextNode(<<" and ids in ">>), VarNode("ids", FALSE)>>

\* the covers a use of test.base may carry: any of these, in this order
CoverChoices ==
    {<<>>, <<CoverNode("abc", AbcChanged)>>, <<CoverNode("d", DWithParam)>>,
     <<CoverNode("abc.d", DChanged)>>, <<CoverNode("other", AbcChanged)>>,
     <<CoverNode("abc", AbcChanged), CoverNode("d", DWithParam)>>,
     <<CoverNode("abc", AbcChanged), CoverNode("abc.d", DChanged)>>,
     <<CoverNode("d", DWithParam), CoverNode("d", DChanged)>>}

\* sql8: select @use test.base { covers }
UseTemplate(covers) == <<TextNode(<<"select ">>), UseNode(BasePath, covers)>>

\* a failure below an if, a loop, a use and a define, after output was written:
\* test.base holds @define a { and id = @id and missing = @missing }
FailingBase ==
    <<TextNode(<<"from t">>),
      DefineNode("a", <<TextNode(<<" and id = ">>), VarNode("id", FALSE),
                        TextNode(<<" and missing = ">>), VarNode("missing", FALSE)>>)>>
DeepFailTemplate ==
    <<TextNode(<<"select", "\n">>),
      IfNode(EGt("id", 0),
             <<ForNode(CountedFor("i", ELit(0), ELt("i", 2), "++", "i", NoExpr),
                       <<TextNode(<<" x ">>), UseNode(BasePath, <<>>)>>)>>,
             <<>>, FALSE, <<>>)>>

\* uses that cannot be resolved
BadUseTemplates ==
    {<<TextNode(<<"select ">>), UseNode(p, <<>>)>> :
        p \in {<<"base">>, <<"test", "none">>, <<"test", "base", "none">>,
               <<"test", "base", "abc">>}}

\* uses whose path has one segment, or names no loaded template, each with
\* a cover and a text after it
BadPaths == {<<"base">>, <<"test", "none">>}
BadPathUse(p) ==
    <<TextNode(<<"select ">>), UseNode(p, <<CoverNode("abc", AbcChanged)>>),
      TextNode(<<" tail">>)>>

\* a block whose body fails
FailingBlockTemplate ==
    <<TextNode(<<"where ">>),
      FuncBlockNode("trim", FALSE, <<TextNode(<<"and x = ">>), VarNode("missing", FALSE)>>)>>

\* a use inside the target of another use, each followed by a define of the
\* name both cover:
\*   test.main: select @use test.base { @cover x { X0 } } @define x { main x }
\*              @define inner { in @define x { inner x } }
\*   test.base: pre @use test.main.inner { @cover x { X1 } } @define x { base x }
UseInTargetMain ==
    <<TextNode(<<"select">>),
      UseNode(BasePath, <<CoverNode("x", <<TextNode(<<" X0">>)>>)>>),
      DefineNode("x", <<TextNode(<<" main x">>)>>),
      DefineNode("inner", <<TextNode(<<" in">>),
                            DefineNode("x", <<TextNode(<<" inner x">>)>>)>>)>>
UseInTargetBase ==
    <<TextNode(<<" pre">>),
      UseNode(<<"test", "main", "inner">>, <<CoverNode("x", <<TextNode(<<" X1">>)>>)>>),
      DefineNode("x", <<TextNode(<<" base x">>)>>)>>

\* a use inside a cover body, followed there by a define of the name it covers:
\*   test.main: select @use test.base {
\*                @cover abc { C @use test.base.d { @cover d { X1 } } @define d { own d } }
\*                @cover d { X0 } }
UseInCoverMain ==
    <<TextNode(<<"select">>),
      UseNode(BasePath,
              <<CoverNode("abc",
                          <<TextNode(<<" C">>),
                            UseNode(<<"test", "base", "d">>,
                                    <<CoverNode("d", <<TextNode(<<" X1">>)>>)>>),
                            DefineNode("d", <<TextNode(<<" own d">>)>>)>>),
                CoverNode("d", <<TextNode(<<" X0">>)>>)>>)>>

\* an if with k else-if branches and, when hasElse, an else branch:
\*   pre @if id > 0 { a = @id } else if ids > 0 { b } else if ids < 1 { c }
\*   else { e } post
IfConds == <<EGt("id", 0), EGt("ids", 0), ELt("ids", 1)>>
IfBodies ==
    <<<<TextNode(<<" a = ">>), VarNode("id", FALSE)>>, <<TextNode(<<" b">>)>>,
      <<TextNode(<<" c">>)>>>>
IfElseBody == <<TextNode(<<" e">>)>>
IfChain(k, hasElse) ==
    <<TextNode(<<"pre">>),
      IfNode(IfConds[1], IfBodies[1],
             [i \in 1..k |-> ElseIfNode(IfConds[i + 1], IfBodies[i + 1])],
             hasElse, IF hasElse THEN IfElseBody ELSE <<>>),
      TextNode(<<" post">>)>>
ElseIfCounts == 0..2

\* select @for kv, vv := range ids { k=@=k v = @v } then a line that tells
\* whether the name _ is bound; the body names k and v only where the loop
\* binds them
RangeBody(kv, vv) ==
    <<TextNode(<<" k=">>)>> \o (IF kv = "k" THEN <<RawNode("k", FALSE)>> ELSE <<>>)
    \o <<TextNode(<<" v = ">>)>> \o (IF vv = "v" THEN <<VarNode("v", FALSE)>> ELSE <<>>)
RangeOver(kv, vv) ==
    <<TextNode(<<"select">>),
      ForNode(RangeFor(kv, vv, EVar("ids")), RangeBody(kv, vv)),
      TextNode(<<"\n", "u = ">>), VarNode("_", TRUE)>>
IndexNames == {"k", "_"}
ValueNames == {"v", "_", ""}

\* a define named target inside a define, an if, an else-if, an else or a
\* for body, or at the top, between two texts and before a second define of
\* the same name
TargetPath == <<"test", "main", "target">>
TargetBody == <<TextNode(<<" and id = ">>), VarNode("id", FALSE)>>
Target == DefineNode("target", TargetBody)
Places == {"top", "define", "if", "else-if", "else", "for"}
Placed(place) ==
    CASE place = "define" -> DefineNode("outer", <<TextNode(<<" outer">>), Target>>)
      [] place = "if" -> IfNode(EGt("id", 0), <<Target>>, <<>>, FALSE, <<>>)
      [] place = "else-if" ->
            IfNode(EGt("id", 0), <<TextNode(<<" a">>)>>,
                   <<ElseIfNode(ELt("id", 0), <<Target>>)>>, FALSE, <<>>)
      [] place = "else" -> IfNode(EGt("id", 0), <<TextNode(<<" a">>)>>, <<>>, TRUE, <<Target>>)
      [] place = "for" ->
            ForNode(CountedFor("i", ELit(0), ELt("i", 2), "++", "i", NoExpr), <<Target>>)
      [] OTHER -> Target
DefineAt(place) ==
    <<TextNode(<<"outside">>), Placed(place),
      DefineNode("target", <<TextNode(<<" second">>)>>), TextNode(<<" after">>)>>

LoopLimits == 0..MaxInt

Documents ==
    {Doc(IfTemplate, <<>>), Doc(RangeTemplate, <<>>), Doc(MethodTemplate, <<>>),
     Doc(FuncBlockTemplate, <<>>), Doc(FailingBlockTemplate, <<>>),
     Doc(DeepFailTemplate, FailingBase), Doc(UseInTargetMain, UseInTargetBase),
     Doc(UseInCoverMain, NestedBase)}
    \cup {Doc(IfChain(k, e), <<>>) : k \in ElseIfCounts, e \in BOOLEAN}
    \cup {Doc(RangeOver(kv, vv), <<>>) : kv \in IndexNames, vv \in ValueNames}
    \cup {Doc(ForTemplate(a, b), <<>>) : a \in LoopLimits, b \in LoopLimits}
    \cup {Doc(UseTemplate(cs), NestedBase) : cs \in CoverChoices}
    \cup {Doc(t, NestedBase) : t \in BadUseTemplates}
    \cup {Doc(BadPathUse(p), NestedBase) : p \in BadPaths}
    \cup {Doc(DefineAt(place), <<>>) : place \in Places}

Args ==
    {VNil, VMap(<<>>, <<>>), VMap(<<"id">>, <<VInt(1)>>),
     VMap(<<"id", "ids">>, <<VInt(0), VInt(0)>>),
     VMap(<<"id", "ids">>, <<VInt(0), VInt(2)>>),
     VMap(<<"id", "ids">>, <<VInt(1), VInt(2)>>),
     VMap(<<"id", "ids">>, <<VInt(1), VSlice(<<>>)>>),
     VMap(<<"id", "ids">>, <<VInt(1), VSlice(<<VInt(1), VInt(2), VInt(3)>>)>>),
     VMap(<<"id", "ids">>, <<VInt(1), VMap(<<"p", "q">>, <<VInt(7), VInt(8)>>)>>)}
    \cup StructArgs

Requests ==
    {<<Main, a>> : a \in Args}
    \cup {<<<<"test", "base", "abc">>, VMap(<<"id">>, <<VInt(1)>>)>>,
          <<<<"test", "main", "none">>, VNil>>,
          <<<<"test">>, VNil>>, <<<<"test", "none">>, VNil>>}
    \cup {<<p, a>> : p \in {<<"test">>, <<"test", "none">>}, a \in StructArgs}
    \cup {<<TargetPath, a>> : a \in {VMap(<<>>, <<>>), VMap(<<"id">>, <<VInt(1)>>)}}

FlatRequests == {<<Main, a>> : a \in {VNil} \cup MapArgs}

Next ==
    \/ \E doc \in Documents : LoadMarkdown(doc)
    \/ \E r \in Requests, order \in Orders : GetSql(r[1], r[2], order, FALSE)
    \/ RegisterFunc("trim", VFunc("ptrq"))

Spec == Init /\ [][Next]_vars

\* the engine loaded with templates of text and placeholders
NextFlat ==
    \/ \E doc \in FlatDocuments : LoadMarkdown(doc)
    \/ \E r \in FlatRequests, order \in Orders : GetSql(r[1], r[2], order, FALSE)

SpecFlat == Init /\ [][NextFlat]_vars

\* the engine rendering the same requests again and again, one of them kept
\* in the history
RepeatDocuments ==
    {Doc(RangeTemplate, <<>>), Doc(MethodTemplate, <<>>), Doc(FuncBlockTemplate, <<>>),
     Doc(ForTemplate(0, 2), <<>>),
     Doc(UseTemplate(<<CoverNode("abc", AbcChanged)>>), NestedBase)}

RepeatArgs ==
    {VNil, VMap(<<"id">>, <<VInt(1)>>),
     VMap(<<"id", "ids">>, <<VInt(1), VSlice(<<VInt(1), VInt(2), VInt(3)>>)>>),
     VMap(<<"id", "ids">>, <<VInt(1), VMap(<<"p", "q">>, <<VInt(7), VInt(8)>>)>>)}
    \cup StructArgs

RepeatRequests ==
    {<<Main, a>> : a \in RepeatArgs}
    \cup {<<<<"test", "base", "abc">>, VMap(<<"id">>, <<VInt(1)>>)>>}

NextRepeat ==
    \/ \E doc \in RepeatDocuments : LoadMarkdown(doc)
    \/ \E r \in RepeatRequests, order \in Orders, remember \in BOOLEAN :
          GetSql(r[1], r[2], order, remember)
    \/ RegisterFunc("trim", VFunc("ptrq"))

SpecRepeat == Init /\ [][NextRepeat]_vars

\* the engine rendering function blocks, with callables of several kinds
\* registered under the block's name or under another:
\*   where @trim { and x in (@name) }     and the same with @trim()
BlockBody(name) ==
    <<TextNode(<<"and">>), TextNode(<<" x in (">>), VarNode(name, FALSE), TextNode(<<")">>)>>
BlockTemplate(withCall, name) ==
    <<TextNode(<<"where ">>), FuncBlockNode("trim", withCall, BlockBody(name))>>
BlockNames == {"id", "ids"}
BlockDocuments == {Doc(BlockTemplate(w, x), <<>>) : w \in BOOLEAN, x \in BlockNames}
BlockArgs ==
    {VMap(<<"id">>, <<VInt(1)>>),
     VMap(<<"id", "ids">>, <<VInt(1), VSlice(<<VInt(1), VInt(2), VInt(3)>>)>>)}
BlockFuncNames == {"trim", "upper"}
BlockFuncs == {VFunc("ptrq"), VFunc("valq"), VFunc("nullary")}

NextBlock ==
    \/ \E doc \in BlockDocuments : LoadMarkdown(doc)
    \/ \E a \in BlockArgs, order \in Orders : GetSql(Main, a, order, FALSE)
    \/ \E name \in BlockFuncNames, fn \in BlockFuncs : RegisterFunc(name, fn)

SpecBlock == Init /\ [][NextBlock]_vars

\* the engine rendering from two goroutines at once; templates are loaded
\* only while no call is running
ConcurrentDocuments ==
    {Doc(MethodTemplate, <<>>), Doc(IfTemplate, <<>>),
     Doc(UseTemplate(<<CoverNode("abc", AbcChanged)>>), NestedBase)}

ConcurrentArgs ==
    {VNil, VMap(<<"id">>, <<VInt(0)>>), VMap(<<"id", "ids">>, <<VInt(1), VInt(2)>>)}
    \cup StructArgs

ConcurrentRequests ==
    {<<Main, a>> : a \in ConcurrentArgs}
    \cup {<<<<"test", "base", "abc">>, VMap(<<"id">>, <<VInt(0)>>)>>,
          <<<<"test", "none">>, VNil>>}

NextConcurrent ==
    \/ \E doc \in ConcurrentDocuments :
          /\ \A g \in Goroutines : calls[g].pc = "idle"
          /\ LoadMarkdown(doc)
    \/ \E g \in Goroutines, r \in ConcurrentRequests : Call(g, r[1], r[2], "fwd")
    \/ \E g \in Goroutines : RLock(g)
    \/ \E g \in Goroutines : ReadCache(g)
    \/ \E g \in Goroutines : RUnlock(g)
    \/ \E g \in Goroutines : Lock(g)
    \/ \E g \in Goroutines : Recheck(g)
    \/ \E g \in Goroutines : Unlock(g)
    \/ \E g \in Goroutines : Execute(g)
    \/ \E g \in Goroutines : Return(g)

SpecConcurrent == Init /\ [][NextConcurrent]_vars

\* the pools used by callers that put back objects with any content
PooledScopes ==
    {NewScope, expandMap(EmptyScope, VMap(<<"id">>, <<VInt(1)>>), 1),
     expandMap(EmptyScope, VMap(<<"id", "ids">>, <<VInt(1), VInt(2)>>), 1)}
PooledArgsSlices ==
    {NewArgsSlice, [array |-> <<VInt(1)>>, len |-> 1],
     [array |-> <<VInt(1), VInt(2)>>, len |-> 1], [array |-> <<VInt(1), VInt(2)>>, len |-> 2]}
PooledStringBuilders ==
    {NewStringBuilder, [buf |-> <<"select">>], [buf |-> <<"select", "\n", "?">>]}

NextPools ==
    \/ GetScope
    \/ \E m \in PooledScopes : PutScope(m)
    \/ GetArgsSlice
    \/ \E a \in PooledArgsSlices : PutArgsSlice(a)
    \/ GetStringBuilder
    \/ \E sb \in PooledStringBuilders : PutStringBuilder(sb)

SpecPools == Init /\ [][NextPools]_vars

\* ParseTemplate on contents made of a text, a '}' and what may follow it:
\* white space, else or a word like it, if, a condition, an open brace
Else == <<"e", "l", "s", "e">>
Gaps == {<<>>, <<" ">>, <<"\n", " ">>}
Words == {<<>>, Else, <<"e", "l", "s">>}
Ifs == {<<>>, <<"i", "f">>}
Conditions == {<<>>, <<" ", "x", " ">>}
Tails == {<<>>, <<"{">>, <<"{", "b", "}">>, <<"}", " ", "c">>}
Contents ==
    {pre \o <<"}">> \o g1 \o w \o g2 \o i \o c \o t :
        pre \in {<<>>, <<"a", " ">>}, g1 \in Gaps, w \in Words, g2 \in Gaps, i \in Ifs,
        c \in Conditions, t \in Tails}

NextLexer ==
    \/ \E input \in Contents : NewLexer(input)
    \/ ScanToken
    \/ Tokenize
    \/ Parse

SpecLexer == Init /\ [][NextLexer]_vars

(***************************************************************************)
(* Properties of the renders, stated on the latest call of the history.    *)
(***************************************************************************)
Count(seq, x) == Cardinality({i \in 1..Len(seq) : seq[i] = x})

EndsWith(seq, suffix) ==
    /\ Len(suffix) <= Len(seq)
    /\ SubSeq(seq, Len(seq) - Len(suffix) + 1, Len(seq)) = suffix

\* the render of a node list with the engine as it is now
Render(nodes, args, order) == run(executeNodes(nodes, newExecutionContext(args, order)))

\* what GetSql returns for a finished render
QueryOf(done) ==
    IF done.err = "" THEN [SQL |-> done.sql, Params |-> done.args] ELSE EmptyQuery

\* the latest call rendered test.main
RenderedMain == last.called /\ last.path = Main /\ Main \in DOMAIN compiledAST

\* the arguments as the caller reads them: a map's entries
Has(args, x) == args.kind = "map" /\ \E i \in 1..Len(args.keys) : args.keys[i] = x
ValueOf(args, x) == args.elems[CHOOSE i \in 1..Len(args.keys) : args.keys[i] = x]

\* the falsy values, as the specification lists them
Falsy(v) ==
    \/ v.kind = "nil"
    \/ v.kind = "bool" /\ v.n = 0
    \/ v.kind = "int" /\ v.n = 0
    \/ v.kind = "string" /\ v.s = ""
    \/ v.kind \in {"slice", "map"} /\ v.elems = <<>>
    \/ v.kind = "ptr" /\ v.n = 0

\* the variable a placeholder names
PName(p) == IF p.type \in {"var", "raw"} THEN p.name ELSE p.expr.name

Parameterized(p) == p.type \in {"var", "var_expr"}

Skipped(p, args) ==
    p.conditional /\ (~Has(args, PName(p)) \/ Falsy(ValueOf(args, PName(p))))

\* the value-elements a placeholder contributes to Params
Pushed(p, args) ==
    IF Skipped(p, args) \/ ~Parameterized(p) THEN <<>>
    ELSE IF ValueOf(args, PName(p)).kind = "slice" THEN ValueOf(args, PName(p)).elems
    ELSE <<ValueOf(args, PName(p))>>

\* n marks joined by ", "
RECURSIVE Joined(_)
Joined(n) ==
    IF n = 0 THEN <<>> ELSE IF n = 1 THEN <<"?">> ELSE Joined(n - 1) \o <<", ", "?">>

\* the prefix of the output that ends just after its last newline
RECURSIVE KeepLines(_)
KeepLines(sql) ==
    IF sql = <<>> THEN <<>>
    ELSE IF sql[Len(sql)] = "\n" THEN sql
    ELSE KeepLines(SubSeq(sql, 1, Len(sql) - 1))

Unconditional(p) == [p EXCEPT !.conditional = FALSE]

IdAndThreeIds == VMap(<<"id", "ids">>, <<VInt(1), VSlice(<<VInt(1), VInt(2), VInt(3)>>)>>)

\* C1: every successful GetSql returns a Query whose SQL holds as many "?"
\* marks as it has Params.
C1_MarksMatchParams ==
    (last.called /\ last.err = "")
        => Count(last.query.SQL, "?") = Len(last.query.Params)

\* C2: a non-skipped parameterized placeholder whose value is a slice of N
\* elements writes N "?" joined by ", " and appends the N elements in order;
\* any other value writes one "?" and appends that value.  So Params is the
\* value-elements of the placeholders evaluated and not skipped, and id=1,
\* ids=[1,2,3] gives `id = ? and id in (?, ?, ?)` with params [1,1,2,3].
C2_SliceExpandsElementwise ==
    (RenderedMain /\ last.err = "") =>
        LET tpl == compiledAST[Main]
            a == last.args
            sql == last.query.SQL
            marks1 == Joined(Len(Pushed(tpl[2], a)))
            marks2 == Joined(Len(Pushed(tpl[4], a)))
        IN  /\ last.query.Params = Pushed(tpl[2], a) \o Pushed(tpl[4], a)
            /\ (Parameterized(tpl[4]) /\ ~Skipped(tpl[4], a))
                  => EndsWith(sql, tpl[3].text \o marks2 \o tpl[5].text)
            /\ (/\ Parameterized(tpl[4]) /\ ~Skipped(tpl[4], a)
                /\ Parameterized(tpl[2]) /\ ~Skipped(tpl[2], a))
                  => sql = tpl[1].text \o marks1 \o tpl[3].text \o marks2 \o tpl[5].text
            /\ (tpl = BasicTemplate /\ a = IdAndThreeIds)
                  => last.query =
                        [SQL |-> <<"select * from t where id = ", "?", " and id in (",
                                   "?", ", ", "?", ", ", "?", ")">>,
                         Params |-> <<VInt(1), VInt(1), VInt(2), VInt(3)>>]

\* C2, reached: the example of TestBasicSQL has been rendered
C2_BasicExampleRendered ==
    /\ RenderedMain /\ last.err = ""
    /\ compiledAST[Main] = BasicTemplate
    /\ last.args = IdAndThreeIds
    /\ Len(last.query.Params) = 4

\* C7: a line of text followed by a conditional placeholder and its line
\* terminator, with the variable absent or zero-valued, leaves nothing in the
\* output: the output is that of the template with the whole line deleted.
C7_SkippedLineLeavesNothing ==
    (RenderedMain /\ last.err = "") =>
        LET tpl == compiledAST[Main]
            a == last.args
            \* tpl[3] ends the line before and opens the line of tpl[4];
            \* the head of tpl[5] is the line terminator of that line
            deleted == <<tpl[1], tpl[2], TextNode(<<"\n">>), TextNode(Tail(tpl[5].text))>>
        IN  (/\ ~tpl[2].conditional
             /\ Len(tpl[3].text) = 2 /\ tpl[3].text[1] = "\n"
             /\ tpl[4].type \in {"var", "raw"} /\ Skipped(tpl[4], a)
             /\ tpl[5].text[1] = "\n")
                => last.query.SQL = Render(deleted, a, "fwd").sql

\* C8: a conditional @x? or @=x? is skipped exactly when x is absent or falsy;
\* skipped, it does not fail, cuts the output back to just after its last
\* newline and leaves Params alone; not skipped, it does what the
\* unconditional placeholder does.
C8_ConditionalSkipsExactlyFalsy ==
    RenderedMain =>
        LET tpl == compiledAST[Main]
            a == last.args
            p == tpl[4]
            before == Render(SubSeq(tpl, 1, 3), a, "fwd")
            plain == Render(<<tpl[1], tpl[2], tpl[3], Unconditional(p), tpl[5]>>, a, "fwd")
        IN  (p.conditional /\ p.type \in {"var", "raw"} /\ before.err = "") =>
                IF ~Has(a, p.name) \/ Falsy(ValueOf(a, p.name))
                THEN /\ last.err = ""
                     /\ last.query.SQL = KeepLines(before.sql) \o tpl[5].text
                     /\ last.query.Params = before.args
                ELSE /\ last.err = plain.err
                     /\ last.query = QueryOf(plain)

\* C8, reached: @ids? skipped on an empty slice in the middle of a line, after
\* a parameter was pushed
C8_EmptySliceSkipped ==
    /\ RenderedMain /\ last.err = ""
    /\ compiledAST[Main][4] = VarNode("ids", TRUE)
    /\ compiledAST[Main][3].text = <<"\n", "  and c = ">>
    /\ Has(last.args, "ids") /\ ValueOf(last.args, "ids") = VSlice(<<>>)
    /\ last.query.Params = <<VInt(1)>>

(***************************************************************************)
(* Properties of composition: use, define and cover.                       *)
(***************************************************************************)
\* test.main is `select @use test.base { cs }` over the nested defines
UsesNestedBase(cs) ==
    /\ RenderedMain /\ Base \in DOMAIN compiledAST
    /\ compiledAST[Main] = UseTemplate(cs)
    /\ compiledAST[Base] = NestedBase

\* the body the cover list cs registers under exactly the name c
Covered(cs, c) == \E i \in 1..Len(cs) : cs[i].name = c
CoverBody(cs, c) ==
    cs[CHOOSE i \in 1..Len(cs) :
          /\ cs[i].name = c
          /\ \A j \in 1..Len(cs) : cs[j].name = c => j <= i].body

\* nodes with every define, at any depth, replaced by the nodes that stand
\* for it: the cover registered under its exact name, else its own body
RECURSIVE Inlined(_, _)
Inlined(nodes, cs) ==
    IF nodes = <<>> THEN <<>>
    ELSE LET n == Head(nodes)
         IN  (IF n.type # "define" THEN <<n>>
              ELSE IF Covered(cs, n.name) THEN CoverBody(cs, n.name)
              ELSE Inlined(n.body, cs))
             \o Inlined(Tail(nodes), cs)

\* C4: @cover abc.d { B } in a use of a template holding
\* @define abc { ... @define d { D } ... } renders B in place of D and the
\* rest of abc's body unchanged.
C4_DottedCoverReplacesNested ==
    (UsesNestedBase(<<CoverNode("abc.d", DChanged)>>) /\ Has(last.args, "id")) =>
        /\ last.err = ""
        /\ last.query.SQL =
              <<"select ", "pre", " and id = ", "?">> \o DChanged[1].text
              \o <<" tail", " post">>

\* C5: @cover abc { B } renders B and nothing of abc's own body: none of its
\* text, placeholders or nested defines, also when the use covers a nested
\* define as well.
C5_OuterCoverReplacesSubtree ==
    \A cs \in CoverChoices :
        (UsesNestedBase(cs) /\ Covered(cs, "abc")) =>
            /\ last.err = ""
            /\ last.query =
                  [SQL |-> <<"select ", "pre">> \o CoverBody(cs, "abc")[1].text
                           \o <<" post">>,
                   Params |-> <<>>]

\* C5, reached: abc and d both covered, rendered without the id that abc's
\* own body needs
C5_OuterAndNestedCovered ==
    /\ UsesNestedBase(<<CoverNode("abc", AbcChanged), CoverNode("d", DWithParam)>>)
    /\ last.args = VNil
    /\ last.query.SQL = <<"select ", "pre", " abc block changed", " post">>

RECURSIVE Iterations(_, _)
Iterations(from, to) ==
    IF from >= to THEN <<>>
    ELSE <<" and col", Digits[from + 1], " = ", "?">> \o Iterations(from + 1, to)

\* C9: `@for i := a; i < b; i++ { body }` with a <= b runs the body b - a
\* times with i = a, a+1, ..., b-1 in that order; 3 times with 0, 1, 2 for
\* `i := 0; i < 3; i++` over an empty scope.
C9_CountedLoopRunsBMinusA ==
    \A a \in LoopLimits, b \in LoopLimits :
        (RenderedMain /\ compiledAST[Main] = ForTemplate(a, b) /\ a <= b) =>
            /\ last.err = ""
            /\ last.query.Params = [k \in 1..(b - a) |-> VInt(a + k - 1)]
            /\ last.query.SQL = <<"select", "\n">> \o Iterations(a, b)

\* C9, reached: i := 0; i < 3; i++ over an empty scope
C9_ZeroToThreeRendered ==
    /\ RenderedMain /\ compiledAST[Main] = ForTemplate(0, 3)
    /\ last.args = VNil
    /\ last.query.Params = <<VInt(0), VInt(1), VInt(2)>>

\* C10: whenever GetSql returns an error the Query it returns is empty,
\* whatever was written before the failure.
C10_ErrorReturnsEmptyQuery ==
    (last.called /\ last.err # "") => last.query = EmptyQuery

\* C10, reached: a missing variable below an if, a loop, a use and a define,
\* after text was written and a parameter pushed
C10_FailedAfterOutput ==
    /\ RenderedMain /\ compiledAST[Main] = DeepFailTemplate
    /\ last.err = "variable not found"
    /\ Render(compiledAST[Main], last.args, "fwd").args # <<>>
    /\ Render(compiledAST[Main], last.args, "fwd").sql # <<>>

(***************************************************************************)
(* Properties of repeated renders, stated on the history.                  *)
(***************************************************************************)
\* the latest call repeats the remembered one
SameRequest ==
    /\ first.called /\ last.called /\ first.since > 0
    /\ first.path = last.path /\ first.args = last.args

\* the variables that range loops iterate, at any depth of nodes
RECURSIVE RangedNames(_)
RangedNames(nodes) ==
    IF nodes = <<>> THEN {}
    ELSE LET n == Head(nodes)
         IN  (IF n.type = "for" /\ n.forExpr.hasRange THEN {n.forExpr.range.name} ELSE {})
             \cup RangedNames(n.body) \cup RangedNames(n.elseBody)
             \cup UNION {RangedNames(n.elseIf[i].body) : i \in 1..Len(n.elseIf)}
             \cup UNION {RangedNames(n.covers[i].body) : i \in 1..Len(n.covers)}
             \cup RangedNames(Tail(nodes))

\* some loaded template ranges over a map of args with two or more entries
RangesOverMap(args) ==
    \E k \in DOMAIN compiledAST :
        \E x \in RangedNames(compiledAST[k]) :
            /\ Has(args, x)
            /\ ValueOf(args, x).kind = "map"
            /\ Len(ValueOf(args, x).keys) >= 2

\* C3 as stated: the same (path, args) rendered twice on one engine, with no
\* load or RegisterFunc in between, gives the same SQL and the same Params.
C3_RepeatedRenderIdentical ==
    SameRequest => (first.query = last.query /\ first.err = last.err)

\* C3, amended: the same holds whenever no range loop iterates a map of two
\* or more entries, whose iteration order is unspecified.
C3_RepeatedRenderIdenticalUnlessMapRange ==
    (SameRequest /\ ~RangesOverMap(last.args))
        => (first.query = last.query /\ first.err = last.err)

\* C3, reached: a range over a slice rendered, then another render, then the
\* same render again
C3_RepeatedAfterOtherRenders ==
    /\ SameRequest /\ first.since = 2
    /\ RenderedMain /\ compiledAST[Main] = RangeTemplate
    /\ last.args = IdAndThreeIds
    /\ last.query.Params = <<VInt(1), VInt(2), VInt(3)>>

(***************************************************************************)
(* Properties of the cover map around a use.                               *)
(***************************************************************************)
\* C11: after a use has executed without error the active cover map is the
\* one that was active before it: the nodes after the use, in a cover body
\* or in the target of another use as well, do not see its covers.
C11_CoversRestoredAfterUse ==
    (RenderedMain /\ Base \in DOMAIN compiledAST) =>
        /\ (compiledAST[Main] = UseInTargetMain /\ compiledAST[Base] = UseInTargetBase)
              => /\ last.err = ""
                 /\ last.query.SQL = <<"select", " pre", " in", " X1", " X0", " main x",
                                       " in", " inner x">>
        /\ (compiledAST[Main] = UseInCoverMain /\ compiledAST[Base] = NestedBase)
              => /\ last.err = ""
                 /\ last.query.SQL = <<"select", "pre", " C">> \o DBody[1].text
                                      \o <<" X0", " post">>

\* C11, reached: the use in the target of another use has been rendered
C11_NestedUsesRendered ==
    /\ RenderedMain /\ Base \in DOMAIN compiledAST
    /\ compiledAST[Main] = UseInTargetMain /\ compiledAST[Base] = UseInTargetBase
    /\ Len(last.query.SQL) = 8

(***************************************************************************)
(* Properties of the if node.                                              *)
(***************************************************************************)
\* what a comparison of a variable with a literal comes to for the caller's
\* arguments: "true", "false", or "error" when the variable is no integer
CondVal(c, args) ==
    IF ~Has(args, c.name) \/ ValueOf(args, c.name).kind # "int" THEN "error"
    ELSE IF c.op = "gt" /\ ValueOf(args, c.name).n > c.n THEN "true"
    ELSE IF c.op = "lt" /\ ValueOf(args, c.name).n < c.n THEN "true"
    ELSE "false"

\* the first of the k + 1 conditions that is not false; k + 2 when all are
FirstNotFalse(k, args) ==
    LET open == {i \in 1..(k + 1) : CondVal(IfConds[i], args) # "false"}
    IN  IF open = {} THEN k + 2 ELSE CHOOSE i \in open : \A j \in open : i <= j

\* C12: an if node evaluates the if condition and then the else-if
\* conditions in source order, stops at the first truthy one and executes
\* that branch's body only; later conditions are not evaluated; with none
\* truthy the else body is executed when present, otherwise nothing.
C12_FirstTruthyBranchOnly ==
    \A k \in ElseIfCounts, e \in BOOLEAN :
        (/\ RenderedMain /\ compiledAST[Main] = IfChain(k, e)
         /\ last.args.kind \in {"nil", "map"}) =>
            LET i == FirstNotFalse(k, last.args)
                branch == Render(IfBodies[i], last.args, "fwd")
            IN  IF i = k + 2
                THEN /\ last.err = ""
                     /\ last.query.SQL =
                            <<"pre">> \o (IF e THEN <<" e">> ELSE <<>>) \o <<" post">>
                     /\ last.query.Params = <<>>
                ELSE IF CondVal(IfConds[i], last.args) = "error"
                THEN last.err = "condition error"
                ELSE /\ last.err = ""
                     /\ last.query.SQL = <<"pre">> \o branch.sql \o <<" post">>
                     /\ last.query.Params = branch.args

\* C12, reached: the first condition holds and the next one could not have
\* been evaluated
C12_LaterConditionNotEvaluated ==
    /\ RenderedMain /\ compiledAST[Main] = IfChain(2, TRUE)
    /\ last.args = VMap(<<"id">>, <<VInt(1)>>)
    /\ last.query = [SQL |-> <<"pre", " a = ", "?", " post">>, Params |-> <<VInt(1)>>]

(***************************************************************************)
(* Properties of the range loop.                                           *)
(***************************************************************************)
\* the orders in which the n entries of a collection may be visited
Orderings(n) ==
    {f \in [1..n -> 1..n] : \A i \in 1..n, j \in 1..n : f[i] = f[j] => i = j}

VisitOrders(c) ==
    IF c.kind = "map" THEN Orderings(Len(c.elems))
    ELSE {[i \in 1..Len(c.elems) |-> i]}

\* what the body of RangeOver(kv, vv) writes for the entries of c visited in
\* the order perm, from the j-th visit on
RECURSIVE Visits(_, _, _, _, _)
Visits(kv, vv, c, perm, j) ==
    IF j > Len(c.elems) THEN <<>>
    ELSE <<" k=">>
         \o (IF kv # "k" THEN <<>>
             ELSE IF c.kind = "map" THEN <<c.keys[perm[j]]>> ELSE <<Digits[perm[j]]>>)
         \o <<" v = ">> \o (IF vv = "v" THEN <<"?">> ELSE <<>>)
         \o Visits(kv, vv, c, perm, j + 1)

\* C13: a range loop executes its body len(c) times, for a slice with
\* (k, v) = (0, c[0]), (1, c[1]), ... in index order, for a map once per key
\* with (key, value) in any order; a name written _ or omitted is not
\* bound; a range value of another kind fails the render before the body
\* is executed at all.
C13_RangeVisitsEveryEntryOnce ==
    \A kv \in IndexNames, vv \in ValueNames :
        (/\ RenderedMain /\ compiledAST[Main] = RangeOver(kv, vv)
         /\ Has(last.args, "ids")) =>
            LET c == ValueOf(last.args, "ids")
            IN  IF c.kind \in {"slice", "map"}
                THEN /\ last.err = ""
                     /\ \E perm \in VisitOrders(c) :
                           /\ last.query.SQL =
                                 <<"select">> \o Visits(kv, vv, c, perm, 1) \o <<"\n">>
                           /\ last.query.Params =
                                 IF vv = "v" THEN [j \in 1..Len(c.elems) |-> c.elems[perm[j]]]
                                 ELSE <<>>
                ELSE /\ last.err = "cannot range"
                     /\ Render(compiledAST[Main], last.args, "fwd").sql = <<"select">>

\* C13, reached: a map of two entries ranged with the key discarded, in the
\* order other than that of its keys
C13_MapRangedInOtherOrder ==
    /\ RenderedMain /\ compiledAST[Main] = RangeOver("_", "v")
    /\ Has(last.args, "ids")
    /\ ValueOf(last.args, "ids") = VMap(<<"p", "q">>, <<VInt(7), VInt(8)>>)
    /\ last.query.Params = <<VInt(8), VInt(7)>>

(***************************************************************************)
(* Properties of the paths.                                                *)
(***************************************************************************)
\* a path of fewer than two segments, or one whose first two segments name
\* no loaded template
Unresolvable(path, loaded) == Len(path) < 2 \/ <<path[1], path[2]>> \notin loaded

\* the latest call rendered a template that is a text and then a use of an
\* unresolvable path
UsedBadPath ==
    /\ RenderedMain
    /\ \E p \in BadPaths : compiledAST[Main] = BadPathUse(p)

\* C14: GetSql, and a use node, with a path of fewer than two segments fails
\* with the invalid-path error, and with a path whose first two segments
\* name no loaded template fails with the template-not-found error; in both
\* cases no node is executed: GetSql returns the empty query and has built
\* no execution context (the type cache is as it was), a use leaves the
\* render where it was (its covers not installed, nothing written).
C14_BadPathFailsBeforeAnyNode ==
    /\ [](UsedBadPath =>
            LET path == compiledAST[Main][2].path
                ctx == Render(compiledAST[Main], last.args, "fwd")
            IN  /\ last.err = IF Len(path) < 2 THEN "invalid use path"
                               ELSE "template not found"
                /\ last.query = EmptyQuery
                /\ ctx.sql = <<"select ">> /\ ctx.args = <<>>
                /\ ctx.covers = NoCovers)
    /\ [][(last'.called /\ Unresolvable(last'.path, DOMAIN compiledAST)) =>
            /\ last'.err = IF Len(last'.path) < 2 THEN "invalid path"
                            ELSE "template not found"
            /\ last'.query = EmptyQuery
            /\ typeCache' = typeCache]_vars

\* C14, reached: a record rendered with an unknown template while the type
\* cache is still empty, after a template was loaded
C14_UnknownTemplateWithRecord ==
    /\ last.called /\ last.path = <<"test", "none">>
    /\ last.args.kind = "struct"
    /\ last.err = "template not found"
    /\ Main \in DOMAIN compiledAST
    /\ DOMAIN typeCache = {}

(***************************************************************************)
(* Properties of the render of one define.                                 *)
(***************************************************************************)
\* the latest call rendered the define target of a template that has it at
\* one of the places
RenderedTarget ==
    /\ last.called /\ last.path = TargetPath /\ Main \in DOMAIN compiledAST
    /\ \E place \in Places : compiledAST[Main] = DefineAt(place)

\* C15: a path namespace.name.defineName renders exactly the body of the
\* define of that name found depth first through define, if, else-if, else
\* and for bodies, and nothing outside it; a template without such a define
\* gives the define-not-found error.
C15_DefinePathRendersDefineBody ==
    /\ RenderedTarget =>
          IF Has(last.args, "id")
          THEN /\ last.err = ""
               /\ last.query = [SQL |-> <<" and id = ", "?">>,
                                Params |-> <<ValueOf(last.args, "id")>>]
          ELSE last.err = "variable not found" /\ last.query = EmptyQuery
    /\ (/\ last.called /\ Len(last.path) = 3
        /\ <<last.path[1], last.path[2]>> \in DOMAIN compiledAST
        /\ ~findDefine(compiledAST[<<last.path[1], last.path[2]>>], last.path[3]).found) =>
          last.err = "define not found" /\ last.query = EmptyQuery

\* C15, reached: the define rendered from inside an else-if whose condition
\* is false, before a second define of the same name
C15_DefineFoundInElseIf ==
    /\ RenderedTarget /\ compiledAST[Main] = DefineAt("else-if")
    /\ last.query.Params = <<VInt(1)>>

(***************************************************************************)
(* Properties of the function blocks.                                      *)
(***************************************************************************)
\* the block's name is bound to no callable, or to one that cannot be called
\* with a Query
CannotCall ==
    \/ "trim" \notin DOMAIN funcs
    \/ funcs["trim"].kind # "func"
    \/ funcs["trim"].s \notin {"ptrq", "valq"}

\* C16: when the callable of a function block cannot be resolved or its
\* invocation fails, the render does not fail: the output receives exactly
\* the text the block's body rendered and the parameters exactly the body's
\* parameters, in order.
C16_FailedCallKeepsBlockBody ==
    \A w \in BOOLEAN, x \in BlockNames :
        (/\ RenderedMain /\ compiledAST[Main] = BlockTemplate(w, x)
         /\ Has(last.args, x) /\ CannotCall) =>
            /\ last.err = ""
            /\ last.query.Params = Pushed(VarNode(x, FALSE), last.args)
            /\ last.query.SQL =
                  <<"where ", "and", " x in (">>
                  \o Joined(Len(Pushed(VarNode(x, FALSE), last.args))) \o <<")">>

\* C16, reached: a block over three parameters whose name is registered as
\* a function without parameters
C16_BlockOfThreeWithNullary ==
    /\ RenderedMain /\ compiledAST[Main] = BlockTemplate(FALSE, "ids")
    /\ "trim" \in DOMAIN funcs /\ funcs["trim"] = VFunc("nullary")
    /\ last.query.Params = <<VInt(1), VInt(2), VInt(3)>>

(***************************************************************************)
(* Properties of the type cache under concurrent calls.                    *)
(***************************************************************************)
\* the goroutines that are at an access of the cache map
Reading == {g \in Goroutines : calls[g].pc = "read"}
Writing == {g \in Goroutines : calls[g].pc = "recheck"}

\* C17: under any interleaving of concurrent GetTypeInfo calls for one
\* record type, by value or by pointer, the type's metadata is built at
\* most once, every caller receives the one cached entry, and the cache map
\* is never written while another goroutine reads or writes it.
C17_TypeInfoBuiltOnce ==
    /\ \A t \in DOMAIN built : built[t] <= 1
    /\ \A g \in Goroutines :
          calls[g].gen # 0 =>
              /\ calls[g].gen = 1
              /\ TypeName(calls[g].args) \in DOMAIN typeCache
              /\ calls[g].info = typeCache[TypeName(calls[g].args)]
    /\ \A g \in Writing : Reading \cup Writing = {g}

\* C17, reached: two calls for the record type, one by value and one by
\* pointer, both missed under the read lock and took the write lock, and
\* both have their entry
C17_BothMissedOneBuilt ==
    /\ \A g \in Goroutines :
          /\ calls[g].waited /\ calls[g].gen = 1
          /\ calls[g].args.kind = "struct"
    /\ \E g \in Goroutines, h \in Goroutines : IsPtrArg(calls[g].args) /\ ~IsPtrArg(calls[h].args)
    /\ Builds("User") = 1

(***************************************************************************)
(* Properties of the scratch pools.                                        *)
(***************************************************************************)
\* C18: for any sequence of get and put calls on the scratch pools, every
\* object handed out by getScope, getArgsSlice and getStringBuilder is empty
\* when returned, whatever content it held when it was put back.
C18_PooledObjectsHandedOutEmpty ==
    /\ pools.out.kind = "scope" => DOMAIN pools.out.obj = {}
    /\ pools.out.kind = "args" => pools.out.obj.len = 0
    /\ pools.out.kind = "sb" => Len(pools.out.obj.buf) = 0

\* C18, reached: an args slice put back with two elements is handed out
\* while the other pools hold objects with content
C18_FilledSliceHandedOut ==
    /\ pools.out.kind = "args" /\ pools.out.held.len = 2
    /\ \E m \in pools.scope : DOMAIN m # {}
    /\ \E sb \in pools.sb : sb.buf # <<>>

(***************************************************************************)
(* Properties of the methods bound from a record argument.                 *)
(***************************************************************************)
\* the names of the methods of a record type, whatever their receiver
MethodNames(t) == {TypeMethods(t)[i].name : i \in 1..Len(TypeMethods(t))}

\* C19: for a record argument passed by value or by pointer, every callable
\* scope entry created under a method name m is the record's method named
\* m, and both the value-receiver and the pointer-receiver methods are
\* bound when the argument is a pointer.
C19_MethodsBoundUnderOwnName ==
    (last.called /\ last.args.kind = "struct") =>
        LET scope == newExecutionContext(last.args, "fwd").scope
            names == MethodNames(TypeName(last.args))
        IN  /\ \A m \in names \cap DOMAIN scope : scope[m] = VFunc(m)
            /\ IsPtrArg(last.args) => names \subseteq DOMAIN scope

(***************************************************************************)
(* Properties of concurrent renders.                                       *)
(***************************************************************************)
\* C20: GetSql calls running concurrently on one engine, with no
\* LoadMarkdown or RegisterFunc running, each return the Query and error
\* the same call returns when run alone.
C20_ConcurrentRenderAsAlone ==
    \A g \in Goroutines :
        calls[g].pc = "done" =>
            LET alone == GetSqlResult(calls[g].path, calls[g].args, calls[g].order)
            IN  calls[g].query = alone.query /\ calls[g].err = alone.err

\* C20, reached: two renders of one template that overlapped (both missed
\* the type cache before either filled it) have returned different queries
C20_OverlappingRendersReturned ==
    /\ Main \in DOMAIN compiledAST /\ compiledAST[Main] = MethodTemplate
    /\ \A g \in Goroutines :
          calls[g].pc = "done" /\ calls[g].waited /\ calls[g].err = ""
    /\ \E g \in Goroutines, h \in Goroutines : calls[g].query # calls[h].query

(***************************************************************************)
(* Properties of the two truthiness verdicts.                              *)
(***************************************************************************)
\* C21: the verdict of evalCondition on a value agrees with the verdict of
\* isTruthy on it; nil, false, zero, the empty string and an empty slice or
\* map are false in both.
C21_ConditionAgreesWithPlaceholder ==
    (last.called /\ Has(last.args, "ids")) =>
        LET scope == newExecutionContext(last.args, "fwd").scope
            cond == evalCondition(EVar("ids"), scope)
        IN  /\ cond.ok
            /\ cond.val = isTruthy(scope["ids"])
            /\ Falsy(ValueOf(last.args, "ids")) => ~cond.val

(***************************************************************************)
(* Properties of the lexer at a close brace.                               *)
(***************************************************************************)
StartsWith(str, prefix) ==
    Len(prefix) <= Len(str) /\ SubSeq(str, 1, Len(prefix)) = prefix

Drop(str, n) == SubSeq(str, n + 1, Len(str))

\* str without its leading white space, and without its leading blanks
RECURSIVE DropSpaces(_)
DropSpaces(str) ==
    IF str # <<>> /\ Head(str) \in {" ", "\t", "\n", "\r"} THEN DropSpaces(Tail(str)) ELSE str
RECURSIVE DropBlanks(_)
DropBlanks(str) ==
    IF str # <<>> /\ Head(str) \in {" ", "\t"} THEN DropBlanks(Tail(str)) ELSE str

\* the characters of str before its first '{'
RECURSIVE BeforeBrace(_)
BeforeBrace(str) ==
    IF str = <<>> \/ Head(str) = "{" THEN <<>> ELSE <<Head(str)>> \o BeforeBrace(Tail(str))

\* what follows the '}' the lexer is at, and what follows the else after it
AfterBrace == Drop(lexer.input, lexer.pos + 1)
AfterElse == DropBlanks(Drop(DropSpaces(AfterBrace), 4))

AtCloseBrace == lexer.at = "scanning" /\ peek(lexer) = "}"
ElseFollows == StartsWith(DropSpaces(AfterBrace), Else)
ElseBraceFollows == ElseFollows /\ StartsWith(AfterElse, <<"{">>)
ElseIfFollows == ElseFollows /\ StartsWith(AfterElse, <<"i", "f">>)
ElseIfBraceFollows ==
    ElseIfFollows /\ \E i \in 1..Len(AfterElse) : AfterElse[i] = "{"

\* the types and values of the tokens the step has appended
Emitted == Drop(lexer'.tokens, Len(lexer.tokens))
EmittedTypes == [i \in 1..Len(Emitted) |-> Emitted[i].type]

\* one close-brace token, and the scan resumed just after the '}'
PlainCloseBrace ==
    /\ lexer'.err = ""
    /\ Emitted = <<Token("RBRACE", <<>>, lexer.line, lexer.column)>>
    /\ lexer'.pos = lexer.pos + 1
    /\ lexer'.line = lexer.line /\ lexer'.column = lexer.column + 1

ElseTokens ==
    IF ElseIfFollows
    THEN /\ EmittedTypes = <<"ELSE_IF", "LBRACE">>
         /\ Emitted[1].value = TrimSpace(BeforeBrace(Drop(AfterElse, 2)))
    ELSE EmittedTypes = <<"ELSE", "LBRACE">>

\* the white space after a '}' is in the text token that follows it
SpaceKept ==
    (lexer.at = "scanning" /\ IsSpace(peek(lexer))) =>
        /\ Len(Emitted) = 1 /\ Emitted[1].type = "TEXT"
        /\ Head(Emitted[1].value) = peek(lexer)

\* C22, as stated: at a '}' not followed by `else {` or `else if ... {` the
\* lexer emits exactly one close-brace token and resumes just after the '}'
\* with line and column restored, the white space it looked past going to
\* the following text token; followed by one of them it emits ELSE or
\* ELSE_IF(cond), then an open brace, and no close brace.
C22_CloseBraceOrElse ==
    [][/\ AtCloseBrace =>
            IF ElseBraceFollows \/ ElseIfBraceFollows THEN ElseTokens ELSE PlainCloseBrace
       /\ SpaceKept]_vars

\* C22, amended: the same, except that at a '}' followed by `else if` with no
\* '{' in the rest of the content the scan fails with an error and emits no
\* token.
C22_CloseBraceOrElseOrError ==
    [][/\ AtCloseBrace =>
            IF ElseBraceFollows \/ ElseIfBraceFollows THEN ElseTokens
            ELSE IF ElseIfFollows THEN lexer'.err # "" /\ Emitted = <<>>
            ELSE PlainCloseBrace
       /\ SpaceKept]_vars

\* C22, reached: a close brace emitted after the lexer looked past white
\* space and an else that no open brace follows
C22_BacktrackedOverElse ==
    /\ lexer.at = "scanning" /\ lexer.tokens # <<>>
    /\ lexer.tokens[Len(lexer.tokens)].type = "RBRACE"
    /\ IsSpace(peek(lexer))
    /\ StartsWith(DropSpaces(Drop(lexer.input, lexer.pos)), Else)

(***************************************************************************)
(* Properties of the registry under renders.                               *)
(***************************************************************************)
\* the define nodes anywhere in a list of nodes, cover bodies included
RECURSIVE DefinesIn(_)
RECURSIVE DefinesInBodies(_)
DefinesInBodies(parts) ==
    IF parts = <<>> THEN {}
    ELSE DefinesIn(Head(parts).body) \cup DefinesInBodies(Tail(parts))
DefinesIn(nodes) ==
    IF nodes = <<>> THEN {}
    ELSE LET n == Head(nodes)
         IN  (IF n.type = "define" THEN {n} ELSE {})
             \cup DefinesIn(n.body) \cup DefinesIn(n.elseBody)
             \cup DefinesInBodies(n.elseIf) \cup DefinesInBodies(n.covers)
             \cup DefinesIn(Tail(nodes))

DefineNames == {"abc", "target", "where", "none"}

\* what findDefine returns is the body of a define of that name in the tree
FoundInTree ==
    \A key \in DOMAIN compiledAST : \A name \in DefineNames :
        LET f == findDefine(compiledAST[key], name)
        IN  f.found =>
                \E d \in DefinesIn(compiledAST[key]) : d.name = name /\ d.body = f.body

\* C23: no render changes the registry: over every step that is not a load,
\* a GetSql that succeeds or fails among them, the compiled trees and the set
\* of registered keys stay as they are, and what findDefine finds is a define
\* of the tree as it is.
C23_RenderLeavesRegistry ==
    /\ [](FoundInTree)
    /\ [][last'.called => compiledAST' = compiledAST /\ store' = store]_vars

\* C23, reached: a render of a loaded template with a use and covers has
\* failed after the use was entered
C23_FailedRenderWithCovers ==
    /\ last.called /\ last.err \notin {"", "template not found", "invalid path"}
    /\ Len(last.path) = 2
    /\ <<last.path[1], last.path[2]>> \in DOMAIN compiledAST
    /\ \E i \in DOMAIN compiledAST[<<last.path[1], last.path[2]>>] :
          LET n == compiledAST[<<last.path[1], last.path[2]>>][i]
          IN  n.type = "use" /\ n.covers # <<>>

(***************************************************************************)
(* Properties of counted loops with malformed clauses.                     *)
(***************************************************************************)
\* the clauses "i := 0; i < 2; i++" and what can be wrong with them
WellFormed == CountedFor("i", ELit(0), ELt("i", 2), "++", "i", NoExpr)

\* "i := 0; i < 2" and "i := 0; i < 2; i++; i++"
Clauses(k) == [WellFormed EXCEPT !.nparts = k]
\* "i = 0; i < 2; i++"
InitNoAssign == [WellFormed EXCEPT !.hasAssign = FALSE]
\* "i := 0; i < 2; i" and "i := 0; i < 2; i *= 2"
PostOther(kind) == [WellFormed EXCEPT !.postKind = kind]
\* "i := 0; i < 2; j++", "...; j--" and "...; j += 1", j bound to no integer
PostUnbound(kind) == [WellFormed EXCEPT !.postKind = kind, !.postVar = "j", !.postAdd = ELit(1)]

Malformed ==
    {Clauses(2), Clauses(4), InitNoAssign, PostOther(""), PostOther("*="),
     PostUnbound("++"), PostUnbound("--"), PostUnbound("+=")}

\* select @for <clauses> { and col = @i }
CountedTemplate(f) ==
    <<TextNode(<<"select", "\n">>),
      ForNode(f, <<TextNode(<<" and col = ">>), VarNode("i", FALSE)>>)>>

CountedDocuments ==
    {Doc(CountedTemplate(f), <<>>) : f \in Malformed \cup {WellFormed}}
    \cup {Doc(ForTemplate(a, b), <<>>) : a \in LoopLimits, b \in LoopLimits}

CountedArgs ==
    {VNil, VMap(<<>>, <<>>), VMap(<<"id">>, <<VInt(1)>>), VMap(<<"j">>, <<VStr("s")>>),
     VMap(<<"i">>, <<VInt(2)>>), VMap(<<"i">>, <<VInt(0)>>)}

NextCounted ==
    \/ \E doc \in CountedDocuments : LoadMarkdown(doc)
    \/ \E a \in CountedArgs : GetSql(Main, a, "fwd", FALSE)

SpecCounted == Init /\ [][NextCounted]_vars

\* the for clauses of the template loaded last
LoadedClauses == compiledAST[Main][2].forExpr

\* C24: a counted for with malformed clauses (not three clauses, an init
\* without := , a post that is not ++, -- or += on an integer binding) fails
\* the render with an error: no render of it returns without one, and none
\* goes on for ever.
C24_MalformedForFails ==
    (Main \in DOMAIN compiledAST /\ LoadedClauses \in Malformed) =>
        /\ last.called => last.err # ""
        /\ \A a \in CountedArgs : GetSqlResult(Main, a, "fwd").err # NeverReturns

(***************************************************************************)
(* Properties of findDefine.                                               *)
(***************************************************************************)
DefinePaths ==
    {TargetPath, <<"test", "main", "none">>, <<"test", "base", "abc">>,
     <<"test", "base", "d">>, <<"test", "base", "abc", "d">>, Main}

DefineDocuments ==
    {Doc(DefineAt(place), NestedBase) : place \in Places}
    \cup {Doc(NestedBase, NestedBase)}

DefineArgs == {VNil, VMap(<<"id">>, <<VInt(1)>>), VMap(<<"id">>, <<VInt(0)>>)}

NextDefine ==
    \/ \E doc \in DefineDocuments : LoadMarkdown(doc)
    \/ \E p \in DefinePaths, a \in DefineArgs : GetSql(p, a, "fwd", FALSE)

SpecDefine == Init /\ [][NextDefine]_vars

\* the define nodes of a list of nodes in the order a depth-first walk
\* through define, if, else-if, else and for bodies meets them
RECURSIVE InOrder(_)
RECURSIVE InOrderBodies(_)
InOrderBodies(parts) ==
    IF parts = <<>> THEN <<>>
    ELSE InOrder(Head(parts).body) \o InOrderBodies(Tail(parts))
InOrder(nodes) ==
    IF nodes = <<>> THEN <<>>
    ELSE LET n == Head(nodes)
         IN  (CASE n.type = "define" -> <<n>> \o InOrder(n.body)
                [] n.type = "if" ->
                      InOrder(n.body) \o InOrderBodies(n.elseIf) \o InOrder(n.elseBody)
                [] n.type = "for" -> InOrder(n.body)
                [] OTHER -> <<>>)
             \o InOrder(Tail(nodes))

Named(defines, name) == {i \in 1..Len(defines) : defines[i].name = name}
FirstNamed(defines, name) ==
    defines[CHOOSE i \in Named(defines, name) : \A j \in Named(defines, name) : i <= j]

NestedNames == {"abc", "d", "outer", "target", "none"}

\* the name `outer.inner`
Dotted(outer, inner) == outer \o "." \o inner

\* C25: findDefine given `outer.inner` returns the define inner inside the
\* body of the define outer; given a single name it returns the first define
\* of that name a depth-first walk through define, if, else-if, else and for
\* bodies meets, and not-found when there is none.
C25_FindDefineResolvesNames ==
    \A key \in DOMAIN compiledAST :
        LET tree == compiledAST[key]
            defines == InOrder(tree)
        IN  /\ \A name \in NestedNames :
                  LET f == findDefine(tree, name)
                  IN  IF Named(defines, name) = {} THEN ~f.found
                      ELSE f.found /\ f.body = FirstNamed(defines, name).body
            /\ \A outer, inner \in NestedNames :
                  (/\ Named(defines, outer) # {}
                   /\ Named(InOrder(FirstNamed(defines, outer).body), inner) # {}) =>
                      LET f == findDefine(tree, Dotted(outer, inner))
                      IN  /\ f.found
                          /\ f.body =
                                FirstNamed(InOrder(FirstNamed(defines, outer).body),
                                           inner).body

(***************************************************************************)
(* Properties of function blocks with skipped lines.                       *)
(***************************************************************************)
\* select where @trim { and a in (@ids?)\n and id = @id } end, the block on
\* the line the parent began
SkipBefore == <<TextNode(<<"select ">>), TextNode(<<"where ">>)>>
SkipBody ==
    <<TextNode(<<" and a in (">>), VarNode("ids", TRUE), TextNode(<<")", "\n">>),
      TextNode(<<" and id = ">>), VarNode("id", FALSE)>>
SkipAfter == <<TextNode(<<" end">>)>>
SkipTemplate(withCall) ==
    SkipBefore \o <<FuncBlockNode("trim", withCall, SkipBody)>> \o SkipAfter

SkipDocuments ==
    {Doc(SkipTemplate(w), <<>>) : w \in BOOLEAN}
    \cup {Doc(SkipBody, <<>>), Doc(SkipBefore \o SkipAfter, <<>>)}
SkipArgs ==
    {VMap(<<"id">>, <<VInt(1)>>), VMap(<<"id">>, <<VInt(2)>>),
     VMap(<<"id", "ids">>, <<VInt(1), VInt(0)>>),
     VMap(<<"id", "ids">>, <<VInt(1), VSlice(<<>>)>>),
     VMap(<<"id", "ids">>, <<VInt(2), VSlice(<<VInt(1), VInt(2), VInt(3)>>)>>),
     VMap(<<"id", "ids">>, <<VInt(1), VInt(2)>>)}

NextSkip ==
    \/ \E doc \in SkipDocuments : LoadMarkdown(doc)
    \/ \E a \in SkipArgs : GetSql(Main, a, "fwd", FALSE)
    \/ \E fn \in BlockFuncs : RegisterFunc("trim", fn)

SpecSkip == Init /\ [][NextSkip]_vars

\* what a list of nodes renders on its own
Alone(nodes, args) == run(executeNodes(nodes, newExecutionContext(args, "fwd")))

\* the block's text and parameters as its callable leaves them
Applied(withCall, q) ==
    IF /\ "trim" \in DOMAIN funcs /\ funcs["trim"].kind = "func"
       /\ \/ funcs["trim"].s = "ptrq"
          \/ funcs["trim"].s = "valq" /\ ~withCall
    THEN CallWithQuery(funcs["trim"].s, q)
    ELSE q

SelfCover ==
    CoverNode("abc", AbcChanged \o <<DefineNode("abc", <<TextNode(<<" inner">>)>>)>>)
\* @cover d { d block changed @define abc { inner } }
OtherCover ==
    CoverNode("d", DChanged \o <<DefineNode("abc", <<TextNode(<<" inner">>)>>)>>)

SelfCoverChoices == CoverChoices \cup {<<SelfCover>>, <<OtherCover>>, <<OtherCover, SelfCover>>}

SelfCoverDocuments == {Doc(UseTemplate(cs), NestedBase) : cs \in SelfCoverChoices}
SelfCoverArgs ==
    {VNil, VMap(<<"id">>, <<VInt(1)>>), VMap(<<"id", "ids">>, <<VInt(1), VInt(2)>>)}
SelfCoverPaths == {Main, Base, <<"test", "base", "abc">>, <<"test", "base", "d">>}

NextSelfCover ==
    \/ \E doc \in SelfCoverDocuments : LoadMarkdown(doc)
    \/ \E p \in SelfCoverPaths, a \in SelfCoverArgs : GetSql(p, a, "fwd", FALSE)

SpecSelfCover == Init /\ [][NextSelfCover]_vars

\* how many times a text occurs in the SQL
Occurrences(sql, text) == Cardinality({i \in 1..Len(sql) : sql[i] = text})

\* C27: every render of a template with no for and no cycle of use targets
\* ends, whatever the covers; a define under an active cover of its name
\* executes the cover body once, also when that body holds a define of the
\* covered name.
C27_CoverBodyRunsOnce ==
    \A cs \in SelfCoverChoices :
        (Main \in DOMAIN compiledAST /\ compiledAST[Main] = UseTemplate(cs)) =>
            /\ \A a \in SelfCoverArgs : GetSqlResult(Main, a, "fwd").err # NeverReturns
            /\ (RenderedMain /\ last.err = "" /\ Covered(cs, "abc")) =>
                  Occurrences(last.query.SQL, CoverBody(cs, "abc")[1].text[1]) = 1

(***************************************************************************)
(* Properties of the parser at the top level.                              *)
(***************************************************************************)
\* the tokens Parse has not consumed
Unconsumed == SubSeq(parser.tokens, parser.pos + 1, Len(parser.tokens))

\* C28: when ParseTemplate returns without error the parser has consumed
\* every token up to EOF: a close brace, or an else, that matches no open
\* construct at the top level is an error and does not end the template
\* early.
C28_ParsedToEnd ==
    parser.at = "parsed" =>
        /\ Len(Unconsumed) = 1
        /\ Unconsumed[1].type = "EOF"

(***************************************************************************)
(* Properties of loads that fail.                                          *)
(***************************************************************************)
SelectOne == <<TextNode(<<"select 1">>)>>
SelectId == <<TextNode(<<"select ">>), VarNode("id", FALSE)>>

\* a document with one template
Single(key, template) == [k \in {key} |-> template]

Compiling == {SelectOne, SelectId}
CompilingDocuments ==
    {Single(k, t) : k \in {Main, Base}, t \in Compiling}
    \cup {Doc(SelectOne, SelectId), Doc(SelectId, SelectId)}
FailingDocuments ==
    {Single(k, Uncompilable) : k \in {Main, Base}}
    \cup {Doc(t, Uncompilable) : t \in Compiling}
    \cup {Doc(Uncompilable, t) : t \in Compiling}

LoadArgs == {VNil, VMap(<<"id">>, <<VInt(1)>>)}

NextLoad ==
    \/ \E doc \in CompilingDocuments \cup FailingDocuments : LoadMarkdown(doc)
    \/ \E p \in {Main, Base}, a \in LoadArgs : GetSql(p, a, "fwd", FALSE)

SpecLoad == Init /\ [][NextLoad]_vars

\* C29: when LoadMarkdown returns an error the engine is as it was before
\* the call, the template store and the compiled trees unchanged, and a later
\* LoadMarkdown of a document whose templates all compile succeeds.
C29_FailedLoadLeavesEngine ==
    /\ [][loadErr' # "" => compiledAST' = compiledAST /\ store' = store]_vars
    /\ [][\A doc \in CompilingDocuments : LoadMarkdown(doc) => loadErr' = ""]_vars

(***************************************************************************)
(* Properties of the covers of a use inside the target of a use.           *)
(***************************************************************************)
\* test.main: select @use test.base { outer covers }
\*            @define leaf { @define x { own x } @define y { own y } }
\* test.base: mid @use test.main.leaf { inner covers } @define x { mid x }
LeafNames == {"x", "y"}
CoverText(who, name) ==
    CASE who = "outer" /\ name = "x" -> " OX"
      [] who = "outer" /\ name = "y" -> " OY"
      [] who = "inner" /\ name = "x" -> " IX"
      [] OTHER -> " IY"
OwnText(name) == IF name = "x" THEN " own x" ELSE " own y"

CoversOf(who, names) ==
    (IF "x" \in names THEN <<CoverNode("x", <<TextNode(<<CoverText(who, "x")>>)>>)>> ELSE <<>>)
    \o (IF "y" \in names THEN <<CoverNode("y", <<TextNode(<<CoverText(who, "y")>>)>>)>>
        ELSE <<>>)

OuterMain(names) ==
    <<TextNode(<<"select">>), UseNode(BasePath, CoversOf("outer", names)),
      DefineNode("leaf", <<DefineNode("x", <<TextNode(<<OwnText("x")>>)>>),
                           DefineNode("y", <<TextNode(<<OwnText("y")>>)>>)>>)>>
InnerBase(names) ==
    <<TextNode(<<" mid">>), UseNode(<<"test", "main", "leaf">>, CoversOf("inner", names)),
      DefineNode("x", <<TextNode(<<" mid x">>)>>)>>

NestedDocuments ==
    {Doc(OuterMain(o), InnerBase(i)) : o \in SUBSET LeafNames, i \in SUBSET LeafNames}
NestedArgs ==
    {VNil, VMap(<<>>, <<>>), VMap(<<"id">>, <<VInt(1)>>), VMap(<<"id">>, <<VInt(0)>>)}

NextNested ==
    \/ \E doc \in NestedDocuments : LoadMarkdown(doc)
    \/ \E p \in {Main, Base}, a \in NestedArgs : GetSql(p, a, "fwd", FALSE)

SpecNested == Init /\ [][NextNested]_vars

\* what the define leaf renders under covers of the names given, by who
LeafUnder(who, names) ==
    <<IF "x" \in names THEN CoverText(who, "x") ELSE OwnText("x"),
      IF "y" \in names THEN CoverText(who, "y") ELSE OwnText("y")>>

\* C30: while a use executes, the active covers are exactly the covers of
\* that use node: a define reached through the inner use is replaced only by
\* a cover of the inner use, and renders its own body when only the outer
\* use covers its name; the define of test.base after the inner use is under
\* the covers of the outer use, and the defines of test.main under none.
C30_InnerUseHasOwnCoversOnly ==
    \A o \in SUBSET LeafNames, i \in SUBSET LeafNames :
        (/\ RenderedMain /\ Base \in DOMAIN compiledAST
         /\ compiledAST[Main] = OuterMain(o) /\ compiledAST[Base] = InnerBase(i)) =>
            /\ last.err = ""
            /\ last.query.SQL =
                  <<"select", " mid">> \o LeafUnder("inner", i)
                  \o <<IF "x" \in o THEN CoverText("outer", "x") ELSE " mid x">>
                  \o LeafUnder("inner", {})

\* C30, reached: x covered by the outer use only and y by the inner use only,
\* rendered
C30_OuterCoversXInnerCoversY ==
    /\ RenderedMain /\ Base \in DOMAIN compiledAST
    /\ compiledAST[Main] = OuterMain({"x"}) /\ compiledAST[Base] = InnerBase({"y"})
    /\ last.query.SQL = <<"select", " mid", " own x", " IY", " OX", " own x", " own y">>

====
